---------------------------- MODULE Spec2Model ----------------------------
(***************************************************************************)
(* Model of the aristarchus data-access layer (aristarchus.go) over the    *)
(* books schema (db/setup_books_db.sql).                                   *)
(*                                                                         *)
(* A string is a sequence of tokens.  A token is either one of the two     *)
(* separator literals " and " and ", " that formatNameList writes and      *)
(* nameListFromString splits on, or a fragment that contains neither.      *)
(* The empty string is <<>> and concatenation is \o.                       *)
(*                                                                         *)
(* A table is a function from the rowids of its rows to the rows.  An      *)
(* INTEGER PRIMARY KEY column is the rowid; an insert that names no rowid  *)
(* gets the largest rowid in the table plus one.  The two association      *)
(* tables are sets of <<book_id, person_id>> pairs, their composite        *)
(* primary key.  The program opens the database without turning foreign    *)
(* key enforcement on, so the engine enforces only the primary keys.       *)
(*                                                                         *)
(* One caller at a time: every action is one whole call of an exported     *)
(* function, its transaction (if any) included.  SpecConcurrent alone has  *)
(* several callers on one *sql.DB: there an action is one statement        *)
(* outside a transaction, or one whole transaction, and the variable       *)
(* callers holds where each caller is in its call.                         *)
(*                                                                         *)
(* The variable trip is a list of names on its way through formatNameList  *)
(* and nameListFromString, the names being strings of characters there.    *)
(***************************************************************************)
EXTENDS Integers, Sequences, FiniteSets, TLC

VARIABLES people, publishers, series, books, book_author, book_editor, trip,
          callers

vars ==
    <<people, publishers, series, books, book_author, book_editor, trip, callers>>

-----------------------------------------------------------------------------
(* Bounds of the model *)

\* largest person_id a committed state may hold
MaxPeople == 2
\* largest publisher_id a committed state may hold
MaxPublishers == 1
\* largest series_id a committed state may hold
MaxSeries == 1
\* largest book_id a committed state may hold
MaxBooks == 2
\* longest list of names of characters that is formatted and parsed
MaxNamesText == 4
\* the books of the runs that vary the scalar fields of a book
MaxBooksFields == 1
\* the callers that share the database handle
MaxCallers == 2
\* the calls one of these callers makes, one after the other
MaxCalls == 2

-----------------------------------------------------------------------------
(* Strings *)

AND == " and "
COMMA == ", "

Max(S) == CHOOSE x \in S : \A y \in S : y <= x
Min(S) == CHOOSE x \in S : \A y \in S : x <= y

\* strings.Split(s, sep): the segments between the occurrences of sep, found
\* from the left and not overlapping, empty segments included.  The
\* separator is a string too: one token, or some characters.
RECURSIVE Split(_, _)
Split(s, sep) ==
    LET at == {i \in 1..Len(s) - Len(sep) + 1 : SubSeq(s, i, i + Len(sep) - 1) = sep}
    IN  IF at = {} THEN <<s>>
        ELSE <<SubSeq(s, 1, Min(at) - 1)>>
             \o Split(SubSeq(s, Min(at) + Len(sep), Len(s)), sep)

\* the loop of formatNameList's default case: names[0..n-3], each followed
\* by the separator ", "
RECURSIVE CommaPrefix(_, _, _)
CommaPrefix(names, n, comma) ==
    IF n = 0 THEN <<>>
    ELSE CommaPrefix(names, n - 1, comma) \o names[n] \o comma

\* formatNameList, with and for the literal " and " and comma for ", "
formatNameListWith(names, and, comma) ==
    IF Len(names) = 0 THEN <<>>
    ELSE IF Len(names) = 1 THEN names[1]
    ELSE IF Len(names) = 2 THEN names[1] \o and \o names[2]
    ELSE CommaPrefix(names, Len(names) - 2, comma)
         \o names[Len(names) - 1] \o and \o names[Len(names)]

\* nameListFromString, with and for the literal " and " and comma for ", "
nameListFromStringWith(nameString, and, comma) ==
    IF Len(nameString) = 0 THEN <<>>
    ELSE LET splitAnd == Split(nameString, and)
         IN  IF Len(splitAnd) = 1 THEN splitAnd
             ELSE Split(splitAnd[1], comma) \o <<splitAnd[2]>>

\* the two functions on the strings of tokens of the store
formatNameList(names) == formatNameListWith(names, <<AND>>, <<COMMA>>)

nameListFromString(nameString) == nameListFromStringWith(nameString, <<AND>>, <<COMMA>>)

\* slices.Contains
Contains(list, x) == \E i \in 1..Len(list) : list[i] = x

\* the elements of list that are not in other, in list's order
RECURSIVE NotIn(_, _)
NotIn(list, other) ==
    IF Len(list) = 0 THEN <<>>
    ELSE (IF Contains(other, Head(list)) THEN <<>> ELSE <<Head(list)>>)
         \o NotIn(Tail(list), other)

-----------------------------------------------------------------------------
(* Values of the Go types *)

\* sql.NullInt64 and sql.NullString
NullInt64(valid, n) == [Valid |-> valid, Int64 |-> n]
NullString(valid, s) == [Valid |-> valid, String |-> s]

\* type PurchasedDate struct
PurchasedDate(y, m, d) == [year |-> y, month |-> m, day |-> d]

\* PurchasedDate.String: the text of a date is the sequence of its printed parts
PurchasedDateString(pd) ==
    IF pd.year = 0 THEN <<>>
    ELSE IF pd.month = 0 THEN <<pd.year>>
    ELSE IF pd.day = 0 THEN <<pd.month, pd.year>>
    ELSE <<pd.day, pd.month, pd.year>>

\* the days of a month that time.Parse accepts
DaysIn(m, y) ==
    IF m \in {4, 6, 9, 11} THEN 30
    ELSE IF m # 2 THEN 31
    ELSE IF y % 4 = 0 /\ (y % 100 # 0 \/ y % 400 = 0) THEN 29
    ELSE 28

\* PurchasedDate.setDate on the zero date: what time.Parse accepts for the
\* layouts "2006", "January 2006" and "2 January 2006", a year of four
\* digits, a month by its name and a day of the month; a text it rejects
\* leaves the date as it was
setDate(s) ==
    IF Len(s) = 1 /\ s[1] \in 1000..9999
    THEN PurchasedDate(s[1], 0, 0)
    ELSE IF Len(s) = 2 /\ s[1] \in 1..12 /\ s[2] \in 1000..9999
    THEN PurchasedDate(s[2], s[1], 0)
    ELSE IF /\ Len(s) = 3 /\ s[2] \in 1..12 /\ s[3] \in 1000..9999
            /\ s[1] \in 1..DaysIn(s[2], s[3])
    THEN PurchasedDate(s[3], s[2], s[1])
    ELSE PurchasedDate(0, 0, 0)

\* type Book struct
Book(id, author, editor, title, subtitle, year, edition, publisher, isbn, ser, status, purchased) ==
    [id |-> id, author |-> author, editor |-> editor, title |-> title,
     subtitle |-> subtitle, year |-> year, edition |-> edition,
     publisher |-> publisher, isbn |-> isbn, series |-> ser,
     status |-> status, purchased |-> purchased]

\* Book{}
ZeroBook ==
    Book(0, <<>>, <<>>, <<>>, <<>>, 0, 0, <<>>, <<>>, <<>>, <<>>,
         PurchasedDate(0, 0, 0))

-----------------------------------------------------------------------------
(* The store *)

\* the database a handle (db or tx) reads and writes
DB ==
    [people |-> people, publishers |-> publishers, series |-> series,
     books |-> books, book_author |-> book_author,
     book_editor |-> book_editor]

EmptyTable == [i \in {} |-> 0]

\* the rowid SQLite gives a row inserted without one
NextRowId(table) ==
    IF DOMAIN table = {} THEN 1 ELSE Max(DOMAIN table) + 1

InsertRow(table, id, row) ==
    [i \in DOMAIN table \cup {id} |-> IF i = id THEN row ELSE table[i]]

DeleteRow(table, id) == [i \in DOMAIN table \ {id} |-> table[i]]

\* The order in which the engine returns the rows of a SELECT without ORDER
\* BY is not fixed by the SQL: a call sees them by ascending or by descending
\* rowid.
RowOrders == {"asc", "desc"}

\* the row QueryRow keeps of a result with several rows
FirstRow(ids, ord) == IF ord = "asc" THEN Min(ids) ELSE Max(ids)

RECURSIVE RowSeq(_, _)
RowSeq(ids, ord) ==
    IF ids = {} THEN <<>>
    ELSE LET i == FirstRow(ids, ord) IN <<i>> \o RowSeq(ids \ {i}, ord)

\* a row of the books table
BookRow(title, subtitle, year, edition, publisher_id, isbn, series_id, status, purchased_date) ==
    [title |-> title, subtitle |-> subtitle, year |-> year,
     edition |-> edition, publisher_id |-> publisher_id, isbn |-> isbn,
     series_id |-> series_id, status |-> status,
     purchased_date |-> purchased_date]

\* book_author or book_editor of a database
Assoc(db, role) ==
    IF role = "book_author" THEN db.book_author ELSE db.book_editor

WithAssoc(db, role, rows) ==
    IF role = "book_author" THEN [db EXCEPT !.book_author = rows]
    ELSE [db EXCEPT !.book_editor = rows]

-----------------------------------------------------------------------------
(* Lookups *)

BookIDValid(db, id) == id \in DOMAIN db.books

\* getNamesListById that takes a result of no rows for an unknown book
getNamesListByIdNoRows(db, id, ord, role) ==
    LET ids == {p \in DOMAIN db.people : <<id, p>> \in Assoc(db, role)}
        rows == RowSeq(ids, ord)
    IN  IF ~BookIDValid(db, id) \/ ids = {}
        THEN [err |-> "InvalidBookId", list |-> <<>>]
        ELSE [err |-> "", list |-> [i \in 1..Len(rows) |-> db.people[rows[i]]]]

\* getAuthorsListById / getEditorsListById: the names INNER JOINed to the
\* association rows of book id
getNamesListById(db, id, ord, role) ==
    IF ~BookIDValid(db, id)
    THEN [err |-> "InvalidBookId", list |-> <<>>]
    ELSE LET ids == {p \in DOMAIN db.people : <<id, p>> \in Assoc(db, role)}
             rows == RowSeq(ids, ord)
         IN  [err |-> "", list |-> [i \in 1..Len(rows) |-> db.people[rows[i]]]]

getAuthorsListById(db, id, ord) == getNamesListById(db, id, ord, "book_author")

getEditorsListById(db, id, ord) == getNamesListById(db, id, ord, "book_editor")

getBookById(db, id, ord) ==
    IF ~BookIDValid(db, id) THEN [err |-> "InvalidBookId", b |-> ZeroBook]
    ELSE LET row == db.books[id] IN
         \* INNER JOIN publishers: no row when the publisher is missing
         IF row.publisher_id \notin DOMAIN db.publishers
         THEN [err |-> "InvalidBookId", b |-> [ZeroBook EXCEPT !.id = id]]
         ELSE
         [err |-> "",
          b |-> Book(id,
                     formatNameList(getAuthorsListById(db, id, ord).list),
                     formatNameList(getEditorsListById(db, id, ord).list),
                     row.title,
                     IF row.subtitle.Valid THEN row.subtitle.String ELSE <<>>,
                     row.year,
                     IF row.edition.Valid THEN row.edition.Int64 ELSE 0,
                     db.publishers[row.publisher_id],
                     row.isbn,
                     \* LEFT JOIN series
                     IF row.series_id.Valid
                        /\ row.series_id.Int64 \in DOMAIN db.series
                     THEN db.series[row.series_id.Int64] ELSE <<>>,
                     row.status,
                     IF row.purchased_date.Valid
                     THEN setDate(row.purchased_date.String)
                     ELSE PurchasedDate(0, 0, 0))]

\* SELECT COUNT(book_id) FROM books
countAllBooks(db) == Cardinality(DOMAIN db.books)

\* countBooksByStatus without the WHERE of its query
countBooksByStatusOfAny(db, status) == Cardinality(DOMAIN db.books)

\* SELECT COUNT(book_id) FROM books WHERE status = ?
countBooksByStatus(db, status) ==
    Cardinality({k \in DOMAIN db.books : db.books[k].status = status})

personName(db, id) ==
    IF id \notin DOMAIN db.people THEN [err |-> "InvalidPersonId", name |-> <<>>]
    ELSE [err |-> "", name |-> db.people[id]]

publisherName(db, id) ==
    IF id \notin DOMAIN db.publishers
    THEN [err |-> "InvalidPublisherId", name |-> <<>>]
    ELSE [err |-> "", name |-> db.publishers[id]]

seriesName(db, id) ==
    IF id \notin DOMAIN db.series THEN [err |-> "InvalidSeriesId", name |-> <<>>]
    ELSE [err |-> "", name |-> db.series[id]]

\* booksByPersonId without its count of the people rows of the id
booksByPersonIdUncounted(db, id) ==
    [err |-> "",
     books |-> {b \in DOMAIN db.books \cup {r[1] : r \in db.book_author \cup db.book_editor} :
                   <<b, id>> \in db.book_author \/ <<b, id>> \in db.book_editor}]

booksByPersonId(db, id) ==
    IF id \notin DOMAIN db.people THEN [err |-> "InvalidPersonId", books |-> {}]
    ELSE [err |-> "",
          books |-> {b \in DOMAIN db.books \cup {r[1] : r \in db.book_author \cup db.book_editor} :
                        <<b, id>> \in db.book_author \/ <<b, id>> \in db.book_editor}]

publisherBooks(db, id) ==
    IF id \notin DOMAIN db.publishers
    THEN [err |-> "InvalidPublisherId", books |-> {}]
    ELSE [err |-> "",
          books |-> {b \in DOMAIN db.books : db.books[b].publisher_id = id}]

seriesBooks(db, id) ==
    IF id \notin DOMAIN db.series THEN [err |-> "InvalidSeriesId", books |-> {}]
    ELSE [err |-> "",
          books |-> {b \in DOMAIN db.books :
                        db.books[b].series_id = NullInt64(TRUE, id)}]

-----------------------------------------------------------------------------
(* Get-or-create by name *)

\* the SELECT ... WHERE name = ? / INSERT pair shared by personId,
\* publisherId and seriesId, on one table
\* the INSERT of the pair without the SELECT before it
GetOrCreateInsert(table, name, ord) ==
    [table |-> InsertRow(table, NextRowId(table), name), id |-> NextRowId(table)]

GetOrCreate(table, name, ord) ==
    LET found == {i \in DOMAIN table : table[i] = name} IN
    IF found # {}
    THEN [table |-> table, id |-> FirstRow(found, ord)]
    ELSE [table |-> InsertRow(table, NextRowId(table), name),
          id |-> NextRowId(table)]

personId(db, person, ord) ==
    IF Len(person) = 0 THEN [db |-> db, err |-> "Validation", id |-> 0]
    ELSE LET r == GetOrCreate(db.people, person, ord)
         IN  [db |-> [db EXCEPT !.people = r.table], err |-> "", id |-> r.id]

publisherId(db, publisher, ord) ==
    IF Len(publisher) = 0 THEN [db |-> db, err |-> "Validation", id |-> 0]
    ELSE LET r == GetOrCreate(db.publishers, publisher, ord)
         IN  [db |-> [db EXCEPT !.publishers = r.table], err |-> "", id |-> r.id]

seriesId(db, ser, ord) ==
    IF Len(ser) = 0 THEN [db |-> db, err |-> "Validation", id |-> 0]
    ELSE LET r == GetOrCreate(db.series, ser, ord)
         IN  [db |-> [db EXCEPT !.series = r.table], err |-> "", id |-> r.id]

-----------------------------------------------------------------------------
(* Deleting a person, a publisher, a series *)

\* deletePerson that looks at book_author only
deletePersonOfAuthors(db, id) ==
    IF id \notin DOMAIN db.people THEN [db |-> db, err |-> "InvalidPersonId"]
    ELSE IF \E r \in db.book_author : r[2] = id
    THEN [db |-> db, err |-> "PersonInUse"]
    ELSE [db |-> [db EXCEPT !.people = DeleteRow(@, id)], err |-> ""]

deletePerson(db, id) ==
    LET b == booksByPersonId(db, id) IN
    IF b.err # "" THEN [db |-> db, err |-> b.err]
    ELSE IF b.books # {} THEN [db |-> db, err |-> "PersonInUse"]
    ELSE [db |-> [db EXCEPT !.people = DeleteRow(@, id)], err |-> ""]

\* deletePublisher without the check for books of the publisher
deletePublisherUnchecked(db, id) ==
    IF id \notin DOMAIN db.publishers THEN [db |-> db, err |-> "InvalidPublisherId"]
    ELSE [db |-> [db EXCEPT !.publishers = DeleteRow(@, id)], err |-> ""]

deletePublisher(db, id) ==
    LET b == publisherBooks(db, id) IN
    IF b.err # "" THEN [db |-> db, err |-> b.err]
    ELSE IF b.books # {} THEN [db |-> db, err |-> "PublisherInUse"]
    ELSE [db |-> [db EXCEPT !.publishers = DeleteRow(@, id)], err |-> ""]

deleteSeries(db, id) ==
    LET b == seriesBooks(db, id) IN
    IF b.err # "" THEN [db |-> db, err |-> b.err]
    ELSE IF b.books # {} THEN [db |-> db, err |-> "SeriesInUse"]
    ELSE [db |-> [db EXCEPT !.series = DeleteRow(@, id)], err |-> ""]

-----------------------------------------------------------------------------
(* Book creation *)

\* checkBookInDb with the first half of its UNION only
checkBookInDbByAuthor(db, b) ==
    LET authorList == nameListFromString(b.author)
        authorForCheck == IF Len(authorList) # 0 THEN authorList[1] ELSE <<>>
    IN  {k \in DOMAIN db.books :
            /\ db.books[k].title = b.title
            /\ \E p \in DOMAIN db.people :
                   <<k, p>> \in db.book_author /\ db.people[p] = authorForCheck}

\* checkBookInDb: the rows of its UNION query, the books titled like b with
\* an author named like b's first author or an editor named like b's first
\* editor ("" stands in for a missing first name)
checkBookInDb(db, b) ==
    LET authorList == nameListFromString(b.author)
        editorList == nameListFromString(b.editor)
        authorForCheck == IF Len(authorList) # 0 THEN authorList[1] ELSE <<>>
        editorForCheck == IF Len(editorList) # 0 THEN editorList[1] ELSE <<>>
    IN  {k \in DOMAIN db.books :
            /\ db.books[k].title = b.title
            /\ \/ \E p \in DOMAIN db.people :
                      <<k, p>> \in db.book_author /\ db.people[p] = authorForCheck
               \/ \E p \in DOMAIN db.people :
                      <<k, p>> \in db.book_editor /\ db.people[p] = editorForCheck}

\* the loops of addBook that resolve a name list to an id list, stopping at
\* the first error
RECURSIVE personIds(_, _, _)
personIds(db, names, ord) ==
    IF Len(names) = 0 THEN [db |-> db, err |-> "", ids |-> <<>>]
    ELSE LET r == personId(db, Head(names), ord) IN
         IF r.err # "" THEN [db |-> r.db, err |-> r.err, ids |-> <<>>]
         ELSE LET rest == personIds(r.db, Tail(names), ord)
              IN  [db |-> rest.db, err |-> rest.err, ids |-> <<r.id>> \o rest.ids]

\* the loops of addBook that insert one association row per id: an insert of
\* a row already there violates the table's primary key
RECURSIVE InsertAssoc(_, _, _)
InsertAssoc(rows, bookId, ids) ==
    IF Len(ids) = 0 THEN [rows |-> rows, err |-> ""]
    ELSE IF <<bookId, Head(ids)>> \in rows THEN [rows |-> rows, err |-> "Error"]
    ELSE InsertAssoc(rows \cup {<<bookId, Head(ids)>>}, bookId, Tail(ids))

\* addBook from the BEGIN on: the database is the one the resolutions left
addBookTx(db, b, authorIdList, editorIdList, pubId, serId) ==
    LET bookId == NextRowId(db.books)
        row == BookRow(b.title,
                       IF Len(b.subtitle) = 0 THEN NullString(FALSE, <<>>)
                       ELSE NullString(TRUE, b.subtitle),
                       b.year,
                       IF b.edition = 0 THEN NullInt64(FALSE, 0)
                       ELSE NullInt64(TRUE, b.edition),
                       pubId, b.isbn, serId, b.status,
                       IF Len(PurchasedDateString(b.purchased)) = 0
                       THEN NullString(FALSE, <<>>)
                       ELSE NullString(TRUE, PurchasedDateString(b.purchased)))
        ia == InsertAssoc(db.book_author, bookId, authorIdList)
        ie == InsertAssoc(db.book_editor, bookId, editorIdList)
    IN  \* defer tx.Rollback(): an error leaves the database as it was at BEGIN
        IF ia.err # "" THEN [db |-> db, err |-> ia.err, id |-> 0]
        ELSE IF ie.err # "" THEN [db |-> db, err |-> ie.err, id |-> 0]
        ELSE [db |-> [db EXCEPT !.books = InsertRow(@, bookId, row),
                                !.book_author = ia.rows,
                                !.book_editor = ie.rows],
              err |-> "", id |-> bookId]

\* addBook from "handle people" to the BEGIN: the names of b resolved to
\* ids on db itself, outside the transaction
addBookNames(db, b, ord) ==
    LET none == [authorIdList |-> <<>>, editorIdList |-> <<>>, pubId |-> 0,
                 serId |-> NullInt64(FALSE, 0)]
        authors == personIds(db, nameListFromString(b.author), ord)
    IN
    IF authors.err # "" THEN [db |-> authors.db, err |-> "Error", ids |-> none]
    ELSE
    LET editors == personIds(authors.db, nameListFromString(b.editor), ord) IN
    IF editors.err # "" THEN [db |-> editors.db, err |-> "Error", ids |-> none]
    ELSE
    LET pub == publisherId(editors.db, b.publisher, ord) IN
    IF pub.err # "" THEN [db |-> pub.db, err |-> "Error", ids |-> none]
    ELSE
    LET ser == IF Len(b.series) = 0
               THEN [db |-> pub.db, err |-> "", id |-> 0]
               ELSE seriesId(pub.db, b.series, ord)
        serId == IF Len(b.series) = 0 THEN NullInt64(FALSE, 0)
                 ELSE NullInt64(TRUE, ser.id)
    IN
    IF ser.err # "" THEN [db |-> ser.db, err |-> "Error", ids |-> none]
    ELSE [db |-> ser.db, err |-> "",
          ids |-> [authorIdList |-> authors.ids, editorIdList |-> editors.ids,
                   pubId |-> pub.id, serId |-> serId]]

addBook(db, b, ord) ==
    LET dup == checkBookInDb(db, b) IN
    IF dup # {} THEN [db |-> db, err |-> "Duplicate", id |-> FirstRow(dup, ord)]
    ELSE
    LET names == addBookNames(db, b, ord) IN
    IF names.err # "" THEN [db |-> names.db, err |-> names.err, id |-> 0]
    ELSE addBookTx(names.db, b, names.ids.authorIdList, names.ids.editorIdList,
                   names.ids.pubId, names.ids.serId)

-----------------------------------------------------------------------------
(* Author and editor update *)

\* the loop over authorsToAdd / editorsToAdd
RECURSIVE AddNames(_, _, _, _, _)
AddNames(db, id, names, ord, role) ==
    IF Len(names) = 0 THEN [db |-> db, err |-> ""]
    ELSE LET r == personId(db, Head(names), ord) IN
         IF r.err # "" THEN [db |-> db, err |-> "Error"]
         ELSE IF <<id, r.id>> \in Assoc(r.db, role)
         THEN [db |-> db, err |-> "Error"]
         ELSE AddNames(WithAssoc(r.db, role, Assoc(r.db, role) \cup {<<id, r.id>>}),
                       id, Tail(names), ord, role)

\* the loop over authorsToDelete / editorsToDelete
RECURSIVE DeleteNames(_, _, _, _, _)
DeleteNames(db, id, names, ord, role) ==
    IF Len(names) = 0 THEN [db |-> db, err |-> ""]
    ELSE LET r == personId(db, Head(names), ord) IN
         IF r.err # "" THEN [db |-> db, err |-> "Error"]
         ELSE DeleteNames(WithAssoc(r.db, role, Assoc(r.db, role) \ {<<id, r.id>>}),
                          id, Tail(names), ord, role)

\* updateBookNames without the deferred tx.Rollback(): an error leaves what
\* the steps before it wrote
updateBookNamesNoRollback(db, id, nameString, ord, role) ==
    LET newList == nameListFromString(nameString)
        old == getNamesListById(db, id, ord, role)
    IN
    IF old.err # "" THEN [db |-> db, err |-> old.err, str |-> <<>>]
    ELSE
    LET added == AddNames(db, id, NotIn(newList, old.list), ord, role) IN
    IF added.err # "" THEN [db |-> added.db, err |-> added.err, str |-> <<>>]
    ELSE
    LET deleted == DeleteNames(added.db, id, NotIn(old.list, newList), ord, role) IN
    IF deleted.err # "" THEN [db |-> deleted.db, err |-> deleted.err, str |-> <<>>]
    ELSE [db |-> deleted.db, err |-> "",
          str |-> formatNameList(getNamesListById(deleted.db, id, ord, role).list)]

\* updateBookAuthor and updateBookEditor are the same code on book_author
\* and on book_editor
updateBookNames(db, id, nameString, ord, role) ==
    LET newList == nameListFromString(nameString)
        old == getNamesListById(db, id, ord, role)
    IN
    IF old.err # "" THEN [db |-> db, err |-> old.err, str |-> <<>>]
    ELSE
    LET toAdd == NotIn(newList, old.list)
        toDelete == NotIn(old.list, newList)
        added == AddNames(db, id, toAdd, ord, role)
    IN
    \* defer tx.Rollback()
    IF added.err # "" THEN [db |-> db, err |-> added.err, str |-> <<>>]
    ELSE
    LET deleted == DeleteNames(added.db, id, toDelete, ord, role) IN
    IF deleted.err # "" THEN [db |-> db, err |-> deleted.err, str |-> <<>>]
    ELSE [db |-> deleted.db, err |-> "",
          str |-> formatNameList(getNamesListById(deleted.db, id, ord, role).list)]

updateBookAuthor(db, id, authorString, ord) ==
    updateBookNames(db, id, authorString, ord, "book_author")

updateBookEditor(db, id, editorString, ord) ==
    updateBookNames(db, id, editorString, ord, "book_editor")

-----------------------------------------------------------------------------
(* Renaming *)

\* UPDATE ... WHERE id = ? changes no row when there is none, and the
\* read-back SELECT then finds no row
updatePersonName(db, id, newName) ==
    IF id \notin DOMAIN db.people THEN [db |-> db, err |-> "Error", str |-> <<>>]
    ELSE [db |-> [db EXCEPT !.people[id] = newName], err |-> "", str |-> newName]

\* updatePublisherName without its query for a row of the new name
updatePublisherNameUnchecked(db, id, name) ==
    IF Len(name) = 0 THEN [db |-> db, err |-> "Validation", str |-> <<>>]
    ELSE IF id \notin DOMAIN db.publishers
    THEN [db |-> db, err |-> "Error", str |-> <<>>]
    ELSE [db |-> [db EXCEPT !.publishers[id] = name], err |-> "", str |-> name]

updatePublisherName(db, id, name) ==
    IF Len(name) = 0 THEN [db |-> db, err |-> "Validation", str |-> <<>>]
    ELSE IF \E i \in DOMAIN db.publishers : db.publishers[i] = name
    THEN [db |-> db, err |-> "NameExists", str |-> <<>>]
    ELSE IF id \notin DOMAIN db.publishers
    THEN [db |-> db, err |-> "Error", str |-> <<>>]
    ELSE [db |-> [db EXCEPT !.publishers[id] = name], err |-> "", str |-> name]

updateSeriesName(db, id, name) ==
    IF id \notin DOMAIN db.series THEN [db |-> db, err |-> "Error", str |-> <<>>]
    ELSE IF Len(name) = 0
    THEN [db |-> db, err |-> "Validation", str |-> db.series[id]]
    ELSE [db |-> [db EXCEPT !.series[id] = name], err |-> "", str |-> name]

-----------------------------------------------------------------------------
(* Publisher and series of a book *)

\* updateBookPublisherById without its check of the new publisher id
updateBookPublisherByIdUnchecked(db, id, publisher, ord) ==
    LET g == getBookById(db, id, ord) IN
    IF g.err # "" THEN [db |-> db, err |-> "Error", id |-> 0]
    ELSE [db |-> [db EXCEPT !.books[id].publisher_id = publisher],
          err |-> "", id |-> publisher]

updateBookPublisherById(db, id, publisher, ord) ==
    LET g == getBookById(db, id, ord) IN
    IF g.err # "" THEN [db |-> db, err |-> "Error", id |-> 0]
    ELSE
    LET orig == publisherId(db, g.b.publisher, ord) IN
    IF orig.err # "" THEN [db |-> orig.db, err |-> "Error", id |-> 0]
    ELSE IF publisher \notin DOMAIN orig.db.publishers
    THEN [db |-> orig.db, err |-> "InvalidPublisherId", id |-> orig.id]
    ELSE [db |-> [orig.db EXCEPT !.books[id].publisher_id = publisher],
          err |-> "", id |-> publisher]

updateBookPublisherByName(db, id, publisher, ord) ==
    IF Len(publisher) = 0 THEN [db |-> db, err |-> "Validation", str |-> <<>>]
    ELSE
    LET pub == publisherId(db, publisher, ord) IN
    \* the UPDATE changes no row and the read-back finds none
    IF id \notin DOMAIN pub.db.books
    THEN [db |-> pub.db, err |-> "Error", str |-> <<>>]
    ELSE
    LET after == [pub.db EXCEPT !.books[id].publisher_id = pub.id]
        updatedPublisher == after.publishers[after.books[id].publisher_id]
    IN  IF updatedPublisher # publisher
        THEN [db |-> after, err |-> "Mismatch", str |-> <<>>]
        ELSE [db |-> after, err |-> "", str |-> updatedPublisher]

\* updateBookSeriesById without its check of the new series id
updateBookSeriesByIdUnchecked(db, id, ser) ==
    IF id \notin DOMAIN db.books THEN [db |-> db, err |-> "Error", id |-> 0]
    ELSE
    LET serId == IF ser = 0 THEN NullInt64(FALSE, 0) ELSE NullInt64(TRUE, ser)
    IN  [db |-> [db EXCEPT !.books[id].series_id = serId],
         err |-> "", id |-> serId.Int64]

updateBookSeriesById(db, id, ser) ==
    IF id \notin DOMAIN db.books THEN [db |-> db, err |-> "Error", id |-> 0]
    ELSE
    LET origSeriesId == db.books[id].series_id IN
    IF ser # 0 /\ ser \notin DOMAIN db.series
    THEN [db |-> db, err |-> "InvalidSeriesId", id |-> origSeriesId.Int64]
    ELSE
    LET serId == IF ser = 0 THEN NullInt64(FALSE, 0) ELSE NullInt64(TRUE, ser)
    IN  [db |-> [db EXCEPT !.books[id].series_id = serId],
         err |-> "", id |-> serId.Int64]

updateBookSeriesByName(db, id, ser, ord) ==
    LET r == IF Len(ser) = 0 THEN [db |-> db, err |-> "", id |-> 0]
             ELSE seriesId(db, ser, ord)
    IN
    IF r.err # "" THEN [db |-> r.db, err |-> "Error", str |-> <<>>]
    ELSE
    LET u == updateBookSeriesById(r.db, id, r.id) IN
    IF u.err # "" THEN [db |-> u.db, err |-> "Error", str |-> <<>>]
    ELSE
    LET sid == u.db.books[id].series_id
        \* LEFT JOIN series
        updatedSeries == IF sid.Valid /\ sid.Int64 \in DOMAIN u.db.series
                         THEN u.db.series[sid.Int64] ELSE <<>>
    IN  IF updatedSeries # ser
        THEN [db |-> u.db, err |-> "Mismatch", str |-> <<>>]
        ELSE [db |-> u.db, err |-> "", str |-> updatedSeries]

-----------------------------------------------------------------------------
(* Scalar fields of a book *)

\* Each of these runs its UPDATE and its read-back SELECT on the handle it
\* is given, with no transaction of its own.  The UPDATE of a book id that
\* has no row changes nothing, and the read-back then finds no row.

\* updateBookTitle without its check of the length of the title
updateBookTitleUnchecked(db, id, title, ord) ==
    IF id \notin DOMAIN db.books
    THEN [db |-> db, err |-> "Error", str |-> <<>>]
    ELSE [db |-> [db EXCEPT !.books[id].title = title], err |-> "", str |-> title]

updateBookTitle(db, id, title, ord) ==
    IF Len(title) = 0
    THEN LET g == getBookById(db, id, ord) IN
         IF g.err # "" THEN [db |-> db, err |-> "Error", str |-> g.b.title]
         ELSE [db |-> db, err |-> "EmptyTitle", str |-> g.b.title]
    ELSE IF id \notin DOMAIN db.books
    THEN [db |-> db, err |-> "Error", str |-> <<>>]
    ELSE [db |-> [db EXCEPT !.books[id].title = title], err |-> "", str |-> title]

\* updateBookSubtitle that binds the string itself, and not a NullString
updateBookSubtitleAsGiven(db, id, subtitle) ==
    IF id \notin DOMAIN db.books THEN [db |-> db, err |-> "Error", str |-> <<>>]
    ELSE [db |-> [db EXCEPT !.books[id].subtitle = NullString(TRUE, subtitle)],
          err |-> "", str |-> subtitle]

updateBookSubtitle(db, id, subtitle) ==
    LET bookSubtitle == IF Len(subtitle) # 0 THEN NullString(TRUE, subtitle)
                        ELSE NullString(FALSE, <<>>)
    IN  IF id \notin DOMAIN db.books THEN [db |-> db, err |-> "Error", str |-> <<>>]
        ELSE [db |-> [db EXCEPT !.books[id].subtitle = bookSubtitle],
              err |-> "", str |-> bookSubtitle.String]

updateBookYear(db, id, year) ==
    IF id \notin DOMAIN db.books THEN [db |-> db, err |-> "Error", n |-> 0]
    ELSE [db |-> [db EXCEPT !.books[id].year = year], err |-> "", n |-> year]

updateBookEdition(db, id, edition) ==
    LET bookEdition == IF edition = 0 THEN NullInt64(FALSE, 0)
                       ELSE NullInt64(TRUE, edition)
    IN  IF id \notin DOMAIN db.books THEN [db |-> db, err |-> "Error", n |-> 0]
        ELSE [db |-> [db EXCEPT !.books[id].edition = bookEdition],
              err |-> "", n |-> bookEdition.Int64]

updateBookIsbn(db, id, isbn) ==
    IF id \notin DOMAIN db.books THEN [db |-> db, err |-> "Error", str |-> <<>>]
    ELSE [db |-> [db EXCEPT !.books[id].isbn = isbn], err |-> "", str |-> isbn]

updateBookStatus(db, id, status) ==
    IF Len(status) = 0 THEN [db |-> db, err |-> "Validation", str |-> <<>>]
    ELSE IF id \notin DOMAIN db.books
    THEN [db |-> db, err |-> "Error", str |-> <<>>]
    ELSE [db |-> [db EXCEPT !.books[id].status = status], err |-> "", str |-> status]

\* the date read back is compared with the date asked for after the UPDATE
updateBookPurchaseDate(db, id, date) ==
    LET purDate == IF Len(PurchasedDateString(date)) = 0 THEN NullString(FALSE, <<>>)
                   ELSE NullString(TRUE, PurchasedDateString(date))
    IN
    IF id \notin DOMAIN db.books
    THEN [db |-> db, err |-> "Error", date |-> PurchasedDate(0, 0, 0)]
    ELSE
    LET after == [db EXCEPT !.books[id].purchased_date = purDate]
        returnDate == IF purDate.Valid THEN setDate(purDate.String)
                      ELSE PurchasedDate(0, 0, 0)
    IN  IF returnDate # date
        THEN [db |-> after, err |-> "Mismatch", date |-> returnDate]
        ELSE [db |-> after, err |-> "", date |-> returnDate]

-----------------------------------------------------------------------------
(* Book deletion *)

\* the loop of deleteBook over peopleList: a PersonInUseError is ignored, any
\* other error ends the loop
RECURSIVE deletePeople(_, _, _)
deletePeople(db, peopleList, ord) ==
    IF Len(peopleList) = 0 THEN [db |-> db, err |-> ""]
    ELSE LET pid == personId(db, Head(peopleList), ord) IN
         IF pid.err # "" THEN [db |-> db, err |-> "Error"]
         ELSE LET d == deletePerson(pid.db, pid.id) IN
              IF d.err \notin {"", "PersonInUse"} THEN [db |-> db, err |-> "Error"]
              ELSE deletePeople(d.db, Tail(peopleList), ord)

\* the publisher step of deleteBook
deleteBookPublisher(db, publisher, ord) ==
    LET pub == publisherId(db, publisher, ord) IN
    IF pub.err # "" THEN [db |-> db, err |-> "Error"]
    ELSE LET d == deletePublisher(pub.db, pub.id) IN
         IF d.err \notin {"", "PublisherInUse"} THEN [db |-> db, err |-> "Error"]
         ELSE [db |-> d.db, err |-> ""]

\* the series step of deleteBook
deleteBookSeries(db, ser, ord) ==
    IF Len(ser) = 0 THEN [db |-> db, err |-> ""]
    ELSE LET sid == seriesId(db, ser, ord) IN
         IF sid.err # "" THEN [db |-> db, err |-> "Error"]
         ELSE LET d == deleteSeries(sid.db, sid.id) IN
              IF d.err \notin {"", "SeriesInUse"} THEN [db |-> db, err |-> "Error"]
              ELSE [db |-> d.db, err |-> ""]

\* deleteBook without the deferred tx.Rollback(): an error leaves the
\* statements executed before it in place
deleteBookNoRollback(db, id, ord) ==
    LET g == getBookById(db, id, ord) IN
    IF g.err # "" THEN [db |-> db, err |-> g.err]
    ELSE
    LET peopleList == nameListFromString(g.b.author)
                      \o nameListFromString(g.b.editor)
        unlinked == [db EXCEPT
                        !.book_author = {r \in @ : r[1] # id},
                        !.book_editor = {r \in @ : r[1] # id}]
        ppl == deletePeople(unlinked, peopleList, ord)
    IN
    IF ppl.err # "" THEN [db |-> unlinked, err |-> ppl.err]
    ELSE
    LET nobook == [ppl.db EXCEPT !.books = DeleteRow(@, id)]
        pub == deleteBookPublisher(nobook, g.b.publisher, ord)
    IN
    IF pub.err # "" THEN [db |-> nobook, err |-> pub.err]
    ELSE
    LET ser == deleteBookSeries(pub.db, g.b.series, ord) IN
    IF ser.err # "" THEN [db |-> pub.db, err |-> ser.err]
    ELSE [db |-> ser.db, err |-> ""]

\* deleteBook from the BEGIN on, book being what getBookById returned
deleteBookTx(db, id, book, ord) ==
    LET peopleList == nameListFromString(book.author)
                      \o nameListFromString(book.editor)
        unlinked == [db EXCEPT
                        !.book_author = {r \in @ : r[1] # id},
                        !.book_editor = {r \in @ : r[1] # id}]
        ppl == deletePeople(unlinked, peopleList, ord)
    IN
    \* defer tx.Rollback(): every error below leaves the database unchanged
    IF ppl.err # "" THEN [db |-> db, err |-> ppl.err]
    ELSE
    LET nobook == [ppl.db EXCEPT !.books = DeleteRow(@, id)]
        pub == deleteBookPublisher(nobook, book.publisher, ord)
    IN
    IF pub.err # "" THEN [db |-> db, err |-> pub.err]
    ELSE
    LET ser == deleteBookSeries(pub.db, book.series, ord) IN
    IF ser.err # "" THEN [db |-> db, err |-> ser.err]
    ELSE [db |-> ser.db, err |-> ""]

deleteBook(db, id, ord) ==
    LET g == getBookById(db, id, ord) IN
    IF g.err # "" THEN [db |-> db, err |-> g.err]
    ELSE deleteBookTx(db, id, g.b, ord)

-----------------------------------------------------------------------------
(* Inputs of the calls *)

\* the longest author list a caller formats into a name-list string
MaxNames == 2

PersonNames == {<<"a">>, <<"b">>}
PublisherNames == {<<"p">>}
SeriesNames == {<<"s">>}
Titles == {<<"t">>}
\* the titles of the runs that tell books apart by title
TwoTitles == {<<"t">>, <<"u">>}
RECURSIVE Lists(_, _)
Lists(S, n) ==
    IF n = 0 THEN {<<>>}
    ELSE Lists(S, n - 1)
         \cup {<<x>> \o l : x \in S, l \in {m \in Lists(S, n - 1) : Len(m) = n - 1}}

\* the name-list strings callers pass: the formatted lists of up to MaxNames
\* names
AuthorStrings ==
    {formatNameList(l) : l \in Lists(PersonNames, MaxNames)}

EditorStrings == {formatNameList(l) : l \in Lists(PersonNames, 1)}

\* a book a caller adds
Candidate(author, editor, title, publisher, ser) ==
    Book(0, author, editor, title, <<>>, 0, 0, publisher, <<>>, ser, <<"Owned">>,
         PurchasedDate(0, 0, 0))

\* the books callers add: no author, one, two or the same one twice; no
\* editor or one; no publisher, a publisher, or a publisher and a series
Candidates(titles) ==
    {Candidate(a, e, t, ps[1], ps[2]) :
        a \in {<<>>, <<"a">>, <<"b">>, <<"a", AND, "b">>, <<"a", AND, "a">>},
        e \in {<<>>, <<"b">>}, t \in titles,
        ps \in {<<<<>>, <<>>>>, <<<<"p">>, <<>>>>, <<<<"p">>, <<"s">>>>}}

\* what the callers pass: books of one title; people, publishers and series
\* are renamed, to a name of another row and to the empty name too
Inputs ==
    [candidates |-> Candidates(Titles),
     personNames |-> PersonNames \cup {<<>>},
     personNewNames |-> PersonNames \cup {<<>>},
     authorStrings |-> AuthorStrings,
     editorStrings |-> EditorStrings,
     publisherNewNames |-> {<<"p">>, <<"q">>, <<>>},
     seriesNewNames |-> {<<"s">>, <<"r">>, <<>>},
     \* the scalar fields are set to what the candidates have, or to nothing
     newTitles |-> Titles \cup {<<>>},
     subtitles |-> {<<>>},
     years |-> {0},
     editions |-> {0},
     isbns |-> {<<>>},
     statuses |-> {<<"Owned">>, <<>>},
     dates |-> {PurchasedDate(0, 0, 0)},
     maxBooks |-> MaxBooks]

\* books of two titles; a rename of a publisher or a series keeps its name
InputsTitles ==
    [Inputs EXCEPT !.candidates = Candidates(TwoTitles),
                   !.newTitles = {<<>>},
                   !.publisherNewNames = PublisherNames \cup {<<>>},
                   !.seriesNewNames = SeriesNames \cup {<<>>}]

\* a person whose name has a comma in it ("a, b"), alone or listed after "a"
InputsCommas ==
    [candidates |-> {Candidate(<<"a", COMMA, "b">>, <<>>, <<"t">>, <<"p">>, ser) :
                        ser \in {<<>>, <<"s">>}},
     personNames |-> {<<"a">>, <<>>},
     personNewNames |-> {<<"a">>},
     authorStrings |-> {<<>>, <<"a">>, <<"a", AND, "a", COMMA, "b">>},
     editorStrings |-> {<<>>, <<"a">>},
     publisherNewNames |-> PublisherNames \cup {<<>>},
     seriesNewNames |-> SeriesNames \cup {<<>>},
     newTitles |-> Inputs.newTitles,
     subtitles |-> Inputs.subtitles,
     years |-> Inputs.years,
     editions |-> Inputs.editions,
     isbns |-> Inputs.isbns,
     statuses |-> Inputs.statuses,
     dates |-> Inputs.dates,
     maxBooks |-> MaxBooks]

\* a book of author "a", publisher "p" and series "s" with scalar fields
Volume(title, subtitle, year, edition, isbn, status, purchased) ==
    Book(0, <<"a">>, <<>>, title, subtitle, year, edition, <<"p">>, isbn, <<"s">>, status, purchased)

\* the dates callers pass: no date, a year, a day, and a day of no month
Dates ==
    {PurchasedDate(0, 0, 0), PurchasedDate(2020, 0, 0),
     PurchasedDate(2020, 5, 17), PurchasedDate(2020, 0, 7)}

\* one book at a time, of one author, with every scalar field set, unset
\* and changed
InputsFields ==
    [candidates |->
         {Candidate(<<"a">>, <<>>, <<"t">>, <<"p">>, <<>>),
          Volume(<<"t">>, <<>>, 0, 0, <<>>, <<"Owned">>, PurchasedDate(0, 0, 0)),
          Volume(<<"t">>, <<"x">>, 2020, 2, <<"i">>, <<"Read">>, PurchasedDate(2020, 5, 17)),
          Volume(<<>>, <<>>, 0, 0, <<>>, <<"Owned">>, PurchasedDate(0, 0, 0)),
          Volume(<<"t">>, <<>>, 0, 0, <<>>, <<>>, PurchasedDate(0, 0, 0))},
     personNames |-> {<<"a">>, <<>>},
     personNewNames |-> {<<"a">>},
     authorStrings |-> {<<>>, <<"a">>},
     editorStrings |-> {<<>>},
     publisherNewNames |-> Inputs.publisherNewNames,
     seriesNewNames |-> Inputs.seriesNewNames,
     newTitles |-> TwoTitles \cup {<<>>},
     subtitles |-> {<<>>, <<"x">>},
     years |-> {0, 2020},
     editions |-> {0, 2},
     isbns |-> {<<>>, <<"i">>},
     statuses |-> {<<"Owned">>, <<"Read">>, <<>>},
     dates |-> Dates,
     maxBooks |-> MaxBooksFields]

\* books of two titles and of status "Owned" or "Want", with one author or
\* none; a status is changed to one of the two, or to "Read"
InputsStatus ==
    [InputsFields EXCEPT
        !.candidates =
            {Book(0, a, <<>>, t, <<>>, 0, 0, <<"p">>, <<>>, <<>>, st, PurchasedDate(0, 0, 0)) :
                a \in {<<>>, <<"a">>}, t \in TwoTitles, st \in {<<"Owned">>, <<"Want">>}},
        !.publisherNewNames = PublisherNames \cup {<<>>},
        !.seriesNewNames = SeriesNames \cup {<<>>},
        !.newTitles = {<<>>},
        !.subtitles = Inputs.subtitles,
        !.years = Inputs.years,
        !.editions = Inputs.editions,
        !.isbns = Inputs.isbns,
        !.statuses = {<<"Owned">>, <<"Want">>, <<"Read">>, <<>>},
        !.dates = Inputs.dates,
        !.maxBooks = MaxBooks]

BookIds == 1..MaxBooks
PersonIds == 1..MaxPeople
PublisherIds == 1..MaxPublishers
SeriesIds == 1..MaxSeries

-----------------------------------------------------------------------------
(* The calls *)

\* the literals of formatNameList and nameListFromString, by character
AndText == <<" ", "a", "n", "d", " ">>
CommaText == <<",", " ">>

\* the names of characters that are formatted and parsed: "", "x", "y",
\* "x and", "and y" and "x, y"
TextNames ==
    {<<>>, <<"x">>, <<"y">>, <<"x", " ", "a", "n", "d">>,
     <<"a", "n", "d", " ", "y">>, <<"x", ",", " ", "y">>}

\* a list of names before it is formatted
Given(names) == [names |-> names, phase |-> "given", str |-> <<>>, list |-> <<>>]

\* the callers of SpecConcurrent
Callers == 1..MaxCallers

\* a caller that has made n calls and is in none
Idle(n) ==
    [op |-> "", pc |-> "idle", calls |-> n, b |-> ZeroBook, k |-> 0,
     todo |-> <<>>, ids |-> <<>>, err |-> "", id |-> 0]

\* the rowids of db are within the model's bounds
Within(db) ==
    /\ DOMAIN db.people \subseteq 1..MaxPeople
    /\ DOMAIN db.publishers \subseteq 1..MaxPublishers
    /\ DOMAIN db.series \subseteq 1..MaxSeries
    /\ DOMAIN db.books \subseteq 1..MaxBooks

\* the database becomes db
Stores(db) ==
    /\ people' = db.people
    /\ publishers' = db.publishers
    /\ series' = db.series
    /\ books' = db.books
    /\ book_author' = db.book_author
    /\ book_editor' = db.book_editor

\* the call leaves database db
Returns(db) == Stores(db) /\ UNCHANGED <<trip, callers>>

Init ==
    /\ people = EmptyTable
    /\ publishers = EmptyTable
    /\ series = EmptyTable
    /\ books = EmptyTable
    /\ book_author = {}
    /\ book_editor = {}
    /\ trip = Given(<<>>)
    /\ callers = [c \in Callers |-> Idle(0)]

PersonId(name, ord) ==
    \E r \in {personId(DB, name, ord)} :
        Within(r.db) /\ Returns(r.db)

PublisherId(name, ord) ==
    \E r \in {publisherId(DB, name, ord)} :
        Within(r.db) /\ Returns(r.db)

SeriesId(name, ord) ==
    \E r \in {seriesId(DB, name, ord)} :
        Within(r.db) /\ Returns(r.db)

\* addBook while the store has room for the book
AddBook(b, ord, maxBooks) ==
    \E r \in {addBook(DB, b, ord)} :
        /\ Within(r.db) /\ DOMAIN r.db.books \subseteq 1..maxBooks
        /\ Returns(r.db)

UpdateBookAuthor(id, str, ord) ==
    \E r \in {updateBookAuthor(DB, id, str, ord)} :
        Within(r.db) /\ Returns(r.db)

UpdateBookEditor(id, str, ord) ==
    \E r \in {updateBookEditor(DB, id, str, ord)} :
        Within(r.db) /\ Returns(r.db)

UpdatePersonName(id, name) ==
    \E r \in {updatePersonName(DB, id, name)} :
        Within(r.db) /\ Returns(r.db)

UpdatePublisherName(id, name) ==
    \E r \in {updatePublisherName(DB, id, name)} :
        Within(r.db) /\ Returns(r.db)

UpdateSeriesName(id, name) ==
    \E r \in {updateSeriesName(DB, id, name)} :
        Within(r.db) /\ Returns(r.db)

UpdateBookPublisherById(id, publisher, ord) ==
    \E r \in {updateBookPublisherById(DB, id, publisher, ord)} :
        Within(r.db) /\ Returns(r.db)

UpdateBookPublisherByName(id, publisher, ord) ==
    \E r \in {updateBookPublisherByName(DB, id, publisher, ord)} :
        Within(r.db) /\ Returns(r.db)

UpdateBookSeriesById(id, ser) ==
    \E r \in {updateBookSeriesById(DB, id, ser)} :
        Within(r.db) /\ Returns(r.db)

UpdateBookSeriesByName(id, ser, ord) ==
    \E r \in {updateBookSeriesByName(DB, id, ser, ord)} :
        Within(r.db) /\ Returns(r.db)

UpdateBookTitle(id, title, ord) ==
    \E r \in {updateBookTitle(DB, id, title, ord)} :
        Within(r.db) /\ Returns(r.db)

UpdateBookSubtitle(id, subtitle) ==
    \E r \in {updateBookSubtitle(DB, id, subtitle)} :
        Within(r.db) /\ Returns(r.db)

UpdateBookYear(id, year) ==
    \E r \in {updateBookYear(DB, id, year)} :
        Within(r.db) /\ Returns(r.db)

UpdateBookEdition(id, edition) ==
    \E r \in {updateBookEdition(DB, id, edition)} :
        Within(r.db) /\ Returns(r.db)

UpdateBookIsbn(id, isbn) ==
    \E r \in {updateBookIsbn(DB, id, isbn)} :
        Within(r.db) /\ Returns(r.db)

UpdateBookStatus(id, status) ==
    \E r \in {updateBookStatus(DB, id, status)} :
        Within(r.db) /\ Returns(r.db)

UpdateBookPurchaseDate(id, date) ==
    \E r \in {updateBookPurchaseDate(DB, id, date)} :
        Within(r.db) /\ Returns(r.db)

DeleteBook(id, ord) ==
    \E r \in {deleteBook(DB, id, ord)} :
        Within(r.db) /\ Returns(r.db)

DeletePerson(id) ==
    \E r \in {deletePerson(DB, id)} :
        Within(r.db) /\ Returns(r.db)

DeletePublisher(id) ==
    \E r \in {deletePublisher(DB, id)} :
        Within(r.db) /\ Returns(r.db)

DeleteSeries(id) ==
    \E r \in {deleteSeries(DB, id)} :
        Within(r.db) /\ Returns(r.db)

\* one call with inputs out of in
Call(in) ==
    \/ \E name \in in.personNames, ord \in RowOrders : PersonId(name, ord)
    \/ \E name \in PublisherNames \cup {<<>>}, ord \in RowOrders : PublisherId(name, ord)
    \/ \E name \in SeriesNames \cup {<<>>}, ord \in RowOrders : SeriesId(name, ord)
    \/ \E b \in in.candidates, ord \in RowOrders : AddBook(b, ord, in.maxBooks)
    \/ \E id \in BookIds, str \in in.authorStrings, ord \in RowOrders :
          UpdateBookAuthor(id, str, ord)
    \/ \E id \in BookIds, str \in in.editorStrings, ord \in RowOrders :
          UpdateBookEditor(id, str, ord)
    \/ \E id \in PersonIds, name \in in.personNewNames : UpdatePersonName(id, name)
    \/ \E id \in PublisherIds, name \in in.publisherNewNames :
          UpdatePublisherName(id, name)
    \/ \E id \in SeriesIds, name \in in.seriesNewNames : UpdateSeriesName(id, name)
    \/ \E id \in BookIds, publisher \in 1..MaxPublishers + 1, ord \in RowOrders :
          UpdateBookPublisherById(id, publisher, ord)
    \/ \E id \in BookIds, name \in PublisherNames \cup {<<>>}, ord \in RowOrders :
          UpdateBookPublisherByName(id, name, ord)
    \/ \E id \in BookIds, ser \in {0} \cup SeriesIds : UpdateBookSeriesById(id, ser)
    \/ \E id \in BookIds, name \in SeriesNames \cup {<<>>}, ord \in RowOrders :
          UpdateBookSeriesByName(id, name, ord)
    \/ \E id \in BookIds, title \in in.newTitles, ord \in RowOrders :
          UpdateBookTitle(id, title, ord)
    \/ \E id \in BookIds, subtitle \in in.subtitles : UpdateBookSubtitle(id, subtitle)
    \/ \E id \in BookIds, year \in in.years : UpdateBookYear(id, year)
    \/ \E id \in BookIds, edition \in in.editions : UpdateBookEdition(id, edition)
    \/ \E id \in BookIds, isbn \in in.isbns : UpdateBookIsbn(id, isbn)
    \/ \E id \in BookIds, status \in in.statuses : UpdateBookStatus(id, status)
    \/ \E id \in BookIds, date \in in.dates : UpdateBookPurchaseDate(id, date)
    \/ \E id \in BookIds, ord \in RowOrders : DeleteBook(id, ord)
    \/ \E id \in PersonIds : DeletePerson(id)
    \/ \E id \in PublisherIds : DeletePublisher(id)
    \/ \E id \in SeriesIds : DeleteSeries(id)

Next == Call(Inputs)

Spec == Init /\ [][Next]_vars

NextTitles == Call(InputsTitles)

SpecTitles == Init /\ [][NextTitles]_vars

NextCommas == Call(InputsCommas)

SpecCommas == Init /\ [][NextCommas]_vars

NextFields == Call(InputsFields)

SpecFields == Init /\ [][NextFields]_vars

\* a list of up to MaxNamesText names of characters is given
InitText ==
    /\ people = EmptyTable
    /\ publishers = EmptyTable
    /\ series = EmptyTable
    /\ books = EmptyTable
    /\ book_author = {}
    /\ book_editor = {}
    /\ trip \in {Given(names) : names \in Lists(TextNames, MaxNamesText)}
    /\ callers = [c \in Callers |-> Idle(0)]

\* formatNameList(names) of the list given
FormatNameList ==
    /\ trip.phase = "given"
    /\ trip' = [trip EXCEPT !.phase = "formatted",
                            !.str = formatNameListWith(trip.names, AndText, CommaText)]
    /\ UNCHANGED <<people, publishers, series, books, book_author, book_editor,
                   callers>>

\* nameListFromString(nameString) of the string formatNameList returned
NameListFromString ==
    /\ trip.phase = "formatted"
    /\ trip' = [trip EXCEPT !.phase = "parsed",
                            !.list = nameListFromStringWith(trip.str, AndText, CommaText)]
    /\ UNCHANGED <<people, publishers, series, books, book_author, book_editor,
                   callers>>

NextText == FormatNameList \/ NameListFromString

SpecText == InitText /\ [][NextText]_vars

NextStatus == Call(InputsStatus)

SpecStatus == Init /\ [][NextStatus]_vars

\* the calls that add, re-attribute and delete books, and no others
NextBooks ==
    \/ \E b \in Inputs.candidates, ord \in RowOrders : AddBook(b, ord, MaxBooks)
    \/ \E id \in BookIds, str \in Inputs.authorStrings, ord \in RowOrders :
          UpdateBookAuthor(id, str, ord)
    \/ \E id \in BookIds, str \in Inputs.editorStrings, ord \in RowOrders :
          UpdateBookEditor(id, str, ord)
    \/ \E id \in BookIds, ord \in RowOrders : DeleteBook(id, ord)

SpecBooks == Init /\ [][NextBooks]_vars

-----------------------------------------------------------------------------
(* Callers that share the *sql.DB *)

\* Outside a transaction every statement is its own transaction, and the
\* statements of several callers interleave.  The engine lets one write
\* transaction at a time commit and shows the others what is committed, so a
\* transaction is one step.  The reads of one query function (getBookById,
\* booksByPersonId, checkBookInDb) are one step as well.

\* the names addBook resolves before its transaction, in the order it
\* resolves them, each with the table it is looked up in
namesToResolve(b) ==
    [i \in 1..Len(nameListFromString(b.author)) |->
        <<"people", nameListFromString(b.author)[i]>>]
    \o [i \in 1..Len(nameListFromString(b.editor)) |->
        <<"people", nameListFromString(b.editor)[i]>>]
    \o <<<<"publishers", b.publisher>>>>
    \o (IF Len(b.series) = 0 THEN <<>> ELSE <<<<"series", b.series>>>>)

\* the caller returns err and id
Return(me, err, id) ==
    [me EXCEPT !.pc = "done", !.err = err, !.id = id]

\* personId, publisherId or seriesId returns id to the caller: to addBook,
\* which goes on with the next name or begins its transaction, or to the
\* caller of the function itself
Resolved(me, id) ==
    IF me.op # "addBook" THEN Return(me, "", id)
    ELSE [me EXCEPT !.ids = Append(@, id),
                    !.todo = Tail(@),
                    !.pc = IF Len(me.todo) = 1 THEN "begin" ELSE "select"]

\* caller c may begin a call
MayCall(c) ==
    /\ callers[c].pc \in {"idle", "done"}
    /\ callers[c].calls < MaxCalls

\* caller c is in op, about to resolve the names of todo
Calling(c, op, todo) ==
    [Idle(callers[c].calls + 1) EXCEPT !.op = op, !.pc = "select", !.todo = todo]

\* caller c only changes where it is in its call
Moves(c, me) ==
    /\ callers' = [callers EXCEPT ![c] = me]
    /\ UNCHANGED <<people, publishers, series, books, book_author, book_editor,
                   trip>>

\* caller c executes a statement or a transaction that leaves database db
Executes(c, me, db) ==
    /\ Within(db)
    /\ Stores(db)
    /\ callers' = [callers EXCEPT ![c] = me]
    /\ UNCHANGED trip

CallPersonId(c, person) ==
    /\ MayCall(c)
    /\ Moves(c, Calling(c, "personId", <<<<"people", person>>>>))

CallPublisherId(c, publisher) ==
    /\ MayCall(c)
    /\ Moves(c, Calling(c, "publisherId", <<<<"publishers", publisher>>>>))

CallSeriesId(c, ser) ==
    /\ MayCall(c)
    /\ Moves(c, Calling(c, "seriesId", <<<<"series", ser>>>>))

\* the check for an empty name and the SELECT ... WHERE name = ? of personId,
\* publisherId and seriesId
SelectByName(c, ord) ==
    LET me == callers[c]
        t == Head(me.todo)[1]
        name == Head(me.todo)[2]
        found == {i \in DOMAIN DB[t] : DB[t][i] = name}
    IN  /\ me.pc = "select"
        /\ Moves(c, IF Len(name) = 0
                    THEN Return(me, IF me.op = "addBook" THEN "Error"
                                    ELSE "Validation", 0)
                    ELSE IF found # {} THEN Resolved(me, FirstRow(found, ord))
                    ELSE [me EXCEPT !.pc = "insert"])

\* the INSERT of personId, publisherId and seriesId after a SELECT that found
\* no row
InsertName(c) ==
    LET me == callers[c]
        t == Head(me.todo)[1]
        name == Head(me.todo)[2]
    IN  /\ me.pc = "insert"
        /\ Executes(c, Resolved(me, NextRowId(DB[t])),
                    [DB EXCEPT ![t] = InsertRow(@, NextRowId(@), name)])

\* addBook up to "handle people": the check for a duplicate
CallAddBook(c, b, ord) ==
    /\ MayCall(c)
    /\ Moves(c, IF checkBookInDb(DB, b) # {}
                THEN Return([Idle(callers[c].calls + 1) EXCEPT !.op = "addBook"],
                            "Duplicate", FirstRow(checkBookInDb(DB, b), ord))
                ELSE [Calling(c, "addBook", namesToResolve(b)) EXCEPT !.b = b])

\* the transaction of addBook, with the ids its caller resolved
AddBookTx(c) ==
    LET me == callers[c]
        na == Len(nameListFromString(me.b.author))
        ne == Len(nameListFromString(me.b.editor))
    IN  /\ me.pc = "begin"
        /\ me.op = "addBook"
        /\ \E r \in {addBookTx(DB, me.b, SubSeq(me.ids, 1, na),
                                SubSeq(me.ids, na + 1, na + ne),
                                me.ids[na + ne + 1],
                                IF Len(me.b.series) = 0 THEN NullInt64(FALSE, 0)
                                ELSE NullInt64(TRUE, me.ids[na + ne + 2]))} :
               Executes(c, Return(me, r.err, r.id), r.db)

\* deleteBook up to its BEGIN: the book is read
CallDeleteBook(c, id, ord) ==
    /\ MayCall(c)
    /\ \E g \in {getBookById(DB, id, ord)} :
           Moves(c, IF g.err # ""
                    THEN Return([Idle(callers[c].calls + 1) EXCEPT
                                    !.op = "deleteBook", !.k = id], g.err, 0)
                    ELSE [Idle(callers[c].calls + 1) EXCEPT
                             !.op = "deleteBook", !.pc = "begin", !.k = id,
                             !.b = g.b])

\* the transaction of deleteBook, for the book its caller read
DeleteBookTx(c, ord) ==
    LET me == callers[c] IN
    /\ me.pc = "begin"
    /\ me.op = "deleteBook"
    /\ \E r \in {deleteBookTx(DB, me.k, me.b, ord)} :
           Executes(c, Return(me, r.err, 0), r.db)

\* the in-use check of deletePerson, deletePublisher or deleteSeries found
\* the books of b: an error, no DELETE when there are books, or on to the
\* DELETE
Checked(c, op, id, b, inUse) ==
    LET me == [Idle(callers[c].calls + 1) EXCEPT !.op = op, !.k = id] IN
    IF b.err # "" THEN Return(me, b.err, 0)
    ELSE IF b.books # {} THEN Return(me, inUse, 0)
    ELSE [me EXCEPT !.pc = "delete"]

CallDeletePerson(c, id) ==
    /\ MayCall(c)
    /\ Moves(c, Checked(c, "deletePerson", id, booksByPersonId(DB, id),
                        "PersonInUse"))

CallDeletePublisher(c, id) ==
    /\ MayCall(c)
    /\ Moves(c, Checked(c, "deletePublisher", id, publisherBooks(DB, id),
                        "PublisherInUse"))

CallDeleteSeries(c, id) ==
    /\ MayCall(c)
    /\ Moves(c, Checked(c, "deleteSeries", id, seriesBooks(DB, id),
                        "SeriesInUse"))

\* the table deletePerson, deletePublisher and deleteSeries delete from
tableOf(op) ==
    CASE op = "deletePerson" -> "people"
      [] op = "deletePublisher" -> "publishers"
      [] op = "deleteSeries" -> "series"

\* the DELETE of deletePerson, deletePublisher and deleteSeries
DeleteById(c) ==
    LET me == callers[c] IN
    /\ me.pc = "delete"
    /\ Executes(c, Return(me, "", 0),
                [DB EXCEPT ![tableOf(me.op)] = DeleteRow(@, me.k)])

\* the books the concurrent callers add
ConcurrentCandidates ==
    {Candidate(<<"a">>, e, <<"t">>, <<"p">>, s) : e \in {<<>>, <<"a">>},
                                                   s \in {<<>>, <<"s">>}}

NextConcurrent ==
    \E c \in Callers :
        \/ \E name \in {<<"a">>, <<>>} : CallPersonId(c, name)
        \/ \E name \in {<<"p">>, <<>>} : CallPublisherId(c, name)
        \/ \E name \in {<<"s">>, <<>>} : CallSeriesId(c, name)
        \/ \E ord \in RowOrders : SelectByName(c, ord)
        \/ InsertName(c)
        \/ \E b \in ConcurrentCandidates, ord \in RowOrders : CallAddBook(c, b, ord)
        \/ AddBookTx(c)
        \/ \E id \in BookIds, ord \in RowOrders : CallDeleteBook(c, id, ord)
        \/ \E ord \in RowOrders : DeleteBookTx(c, ord)
        \/ \E id \in PersonIds : CallDeletePerson(c, id)
        \/ \E id \in PublisherIds : CallDeletePublisher(c, id)
        \/ \E id \in SeriesIds : CallDeleteSeries(c, id)
        \/ DeleteById(c)

SpecConcurrent == Init /\ [][NextConcurrent]_vars

-----------------------------------------------------------------------------
(* Vocabulary of the properties *)

\* the names in a list, in a table
NameSet(list) == {list[i] : i \in DOMAIN list}

\* the people book k has in a role, by id
RoleIds(db, k, role) == {r[2] : r \in {x \in Assoc(db, role) : x[1] = k}}

\* the people book k has as authors or editors, by id
PeopleOf(db, k) == RoleIds(db, k, "book_author") \cup RoleIds(db, k, "book_editor")

\* the names of the rows ids of a table
NamesOf(table, ids) == {table[i] : i \in ids \cap DOMAIN table}

OtherBooks(db, k) == DOMAIN db.books \ {k}

\* the people, the publishers, the series that a book other than k refers to
PeopleOfOthers(db, k) == UNION {PeopleOf(db, j) : j \in OtherBooks(db, k)}
PublishersOfOthers(db, k) == {db.books[j].publisher_id : j \in OtherBooks(db, k)}
SeriesOfOthers(db, k) ==
    {db.books[j].series_id.Int64 :
        j \in {i \in OtherBooks(db, k) : db.books[i].series_id.Valid}}

\* the series of book k, by id
SeriesOf(db, k) ==
    IF db.books[k].series_id.Valid THEN {db.books[k].series_id.Int64} ELSE {}

\* book k is the only book of its authors, editors, publisher and series
SoleBook(db, k) ==
    /\ PeopleOf(db, k) \cap PeopleOfOthers(db, k) = {}
    /\ db.books[k].publisher_id \notin PublishersOfOthers(db, k)
    /\ SeriesOf(db, k) \cap SeriesOfOthers(db, k) = {}

\* book k has a person, a publisher or a series that another book refers to
SharingBook(db, k) == ~SoleBook(db, k)

\* no row about book k is left in db
BookGone(db, k) ==
    /\ k \notin DOMAIN db.books
    /\ RoleIds(db, k, "book_author") = {}
    /\ RoleIds(db, k, "book_editor") = {}

\* the rows ids of a table are in after as they are in before
Kept(before, after, ids) ==
    \A i \in ids \cap DOMAIN before : i \in DOMAIN after /\ after[i] = before[i]

-----------------------------------------------------------------------------
(* Deletion *)

\* C1: if a book is the only book of its authors, editors, publisher and
\* series, then after a successful deleteBook on it the book row and its
\* book_author and book_editor rows are gone, and no people, publishers or
\* series row has the name of one of its authors or editors, of its
\* publisher, of its series.
C1_DeleteSoleBook ==
    \A k \in DOMAIN books, ord \in RowOrders :
        LET r == deleteBook(DB, k, ord) IN
        (SoleBook(DB, k) /\ r.err = "") =>
            /\ BookGone(r.db, k)
            /\ NamesOf(r.db.people, DOMAIN r.db.people)
                   \cap NamesOf(people, PeopleOf(DB, k)) = {}
            /\ NamesOf(r.db.publishers, DOMAIN r.db.publishers)
                   \cap NamesOf(publishers, {books[k].publisher_id}) = {}
            /\ NamesOf(r.db.series, DOMAIN r.db.series)
                   \cap NamesOf(series, SeriesOf(DB, k)) = {}

\* C2: deleteBook on a book that has a person, a publisher or a series which
\* another book refers to returns no error, removes the book, and leaves in
\* place every person, publisher and series that another book refers to.
C2_DeleteSharingBook ==
    \A k \in DOMAIN books, ord \in RowOrders :
        LET r == deleteBook(DB, k, ord) IN
        SharingBook(DB, k) =>
            /\ r.err = ""
            /\ BookGone(r.db, k)
            /\ Kept(people, r.db.people, PeopleOfOthers(DB, k))
            /\ Kept(publishers, r.db.publishers, PublishersOfOthers(DB, k))
            /\ Kept(series, r.db.series, SeriesOfOthers(DB, k))

\* C3: deletePerson on a person who is an author or an editor of a book,
\* deletePublisher on the publisher of a book and deleteSeries on the series
\* of a book return the in-use error of their kind and leave every table as
\* it was.
C3_DeleteInUse ==
    /\ \A id \in DOMAIN people :
           id \in UNION {PeopleOf(DB, k) : k \in DOMAIN books} =>
               deletePerson(DB, id) = [db |-> DB, err |-> "PersonInUse"]
    /\ \A id \in DOMAIN publishers :
           id \in {books[k].publisher_id : k \in DOMAIN books} =>
               deletePublisher(DB, id) = [db |-> DB, err |-> "PublisherInUse"]
    /\ \A id \in DOMAIN series :
           id \in UNION {SeriesOf(DB, k) : k \in DOMAIN books} =>
               deleteSeries(DB, id) = [db |-> DB, err |-> "SeriesInUse"]

\* a state where each of the three is refused: a person who is the editor of
\* one book and an author of another, beside a person of no book, and a
\* publisher and a series of a book
C3_Witness ==
    /\ \E id \in DOMAIN people, j, k \in DOMAIN books :
           /\ j # k
           /\ <<j, id>> \in book_editor /\ <<k, id>> \in book_author
           /\ deletePerson(DB, id).err = "PersonInUse"
    /\ \E id \in DOMAIN publishers :
           /\ publisherBooks(DB, id).books # {}
           /\ deletePublisher(DB, id).err = "PublisherInUse"
    /\ \E id \in DOMAIN series :
           /\ seriesBooks(DB, id).books # {}
           /\ deleteSeries(DB, id).err = "SeriesInUse"

-----------------------------------------------------------------------------
(* References *)

\* C4: in every state that calls of addBook, updateBookAuthor,
\* updateBookEditor, updateBookPublisherById, updateBookPublisherByName,
\* updateBookSeriesById, updateBookSeriesByName, deleteBook, deletePerson,
\* deletePublisher and deleteSeries (and of personId, publisherId, seriesId
\* and the renames) lead to, every book_author and book_editor row refers to
\* a book and to a person that exist, every book's publisher_id to a
\* publisher that exists, and every series_id that is not NULL to a series
\* that exists.
C4_References ==
    /\ \A r \in book_author \cup book_editor :
           r[1] \in DOMAIN books /\ r[2] \in DOMAIN people
    /\ \A k \in DOMAIN books :
           /\ books[k].publisher_id \in DOMAIN publishers
           /\ books[k].series_id.Valid =>
                  books[k].series_id.Int64 \in DOMAIN series

\* a state after deletions: book 1 and person 1 are gone, and book 2 still
\* has an author, an editor, a publisher and a series
C4_Witness ==
    /\ DOMAIN books = {2}
    /\ DOMAIN people = {2}
    /\ RoleIds(DB, 2, "book_author") = {2}
    /\ RoleIds(DB, 2, "book_editor") = {2}
    /\ books[2].publisher_id \in DOMAIN publishers
    /\ books[2].series_id.Valid

-----------------------------------------------------------------------------
(* Book creation *)

\* addBook(b) on db gets past the duplicate check and the resolution of its
\* names, inserts the book row, and then fails at an association insert
FailsAtAssociation(db, b, ord) ==
    LET names == addBookNames(db, b, ord) IN
    /\ checkBookInDb(db, b) = {}
    /\ names.err = ""
    /\ addBookTx(names.db, b, names.ids.authorIdList, names.ids.editorIdList,
                 names.ids.pubId, names.ids.serId).err # ""

\* C5: when an association insert of addBook fails after the insert of the
\* book row, the call leaves no book row, no association row and no people,
\* publishers or series row that it created: every table is as before the
\* call.
C5_AddBookFailsClean ==
    \A b \in Inputs.candidates, ord \in RowOrders :
        FailsAtAssociation(DB, b, ord) =>
            /\ addBook(DB, b, ord).err # ""
            /\ addBook(DB, b, ord).db = DB

\* the candidates of the runs with two titles, each with an id field of its
\* own too
CandidatesWithIds ==
    {[b EXCEPT !.id = i] : b \in InputsTitles.candidates, i \in {0, MaxBooks}}

\* the first-listed name of a name-list string, if it lists any
FirstListed(nameString) ==
    LET list == nameListFromString(nameString)
    IN  IF Len(list) = 0 THEN {} ELSE {list[1]}

\* the books titled like b of which the first-listed author of b or the
\* first-listed editor of b is an author or an editor
MatchesInAnyRole(db, b) ==
    {k \in DOMAIN db.books :
        /\ db.books[k].title = b.title
        /\ (FirstListed(b.author) \cup FirstListed(b.editor))
               \cap NamesOf(db.people, PeopleOf(db, k)) # {}}

\* the books titled like b of which the first-listed author of b is an
\* author, or the first-listed editor of b is an editor
MatchesInRole(db, b) ==
    {k \in DOMAIN db.books :
        /\ db.books[k].title = b.title
        /\ \/ FirstListed(b.author)
                  \cap NamesOf(db.people, RoleIds(db, k, "book_author")) # {}
           \/ FirstListed(b.editor)
                  \cap NamesOf(db.people, RoleIds(db, k, "book_editor")) # {}}

\* addBook(b) fails with the duplicate-book error, which carries the id of
\* an existing book with the title of b, and leaves every table as it was
RejectedAsDuplicate(db, b, ord) ==
    LET r == addBook(db, b, ord) IN
    /\ r.err = "Duplicate"
    /\ r.id \in DOMAIN db.books
    /\ db.books[r.id].title = b.title
    /\ r.db = db

-----------------------------------------------------------------------------
(* Names *)

\* the rows of a table that have a name
RowsNamed(table, name) == {i \in DOMAIN table : table[i] = name}

\* resolve is called with name on db, and once more on what the first call
\* left (the engine free to order rows differently in each call): both calls
\* return the same id without error, and one row has the name afterwards
SameIdTwice(resolve(_, _, _), db, table(_), name) ==
    \A ord1, ord2 \in RowOrders :
        LET first == resolve(db, name, ord1)
            second == resolve(first.db, name, ord2)
        IN  /\ first.err = "" /\ second.err = ""
            /\ second.id = first.id
            /\ RowsNamed(table(second.db), name) = {first.id}

PeopleTable(db) == db.people
PublishersTable(db) == db.publishers
SeriesTable(db) == db.series

\* C7: personId called twice in succession with the same name, non-empty and
\* of no people row, returns the same id both times and leaves exactly one
\* people row of that name; likewise publisherId with publishers, and
\* seriesId with series.
C7_GetOrCreateTwice ==
    /\ \A name \in PersonNames \cup {<<"a", COMMA, "b">>} :
           RowsNamed(people, name) = {} =>
               SameIdTwice(personId, DB, PeopleTable, name)
    /\ \A name \in PublisherNames \cup {<<"q">>} :
           RowsNamed(publishers, name) = {} =>
               SameIdTwice(publisherId, DB, PublishersTable, name)
    /\ \A name \in SeriesNames \cup {<<"r">>} :
           RowsNamed(series, name) = {} =>
               SameIdTwice(seriesId, DB, SeriesTable, name)

\* a state with people, a publisher and a series of other names, where each
\* of the three, called twice with a new name, adds one row after the others
C7_Witness ==
    /\ people # EmptyTable /\ publishers # EmptyTable /\ series # EmptyTable
    /\ \E name \in PersonNames :
           /\ RowsNamed(people, name) = {}
           /\ personId(personId(DB, name, "asc").db, name, "desc")
                  = [db |-> [DB EXCEPT !.people =
                                 InsertRow(people, NextRowId(people), name)],
                     err |-> "", id |-> NextRowId(people)]
    /\ RowsNamed(publishers, <<"p">>) = {}
    /\ publisherId(publisherId(DB, <<"p">>, "asc").db, <<"p">>, "desc").id
           = NextRowId(publishers)
    /\ RowsNamed(series, <<"s">>) = {}
    /\ seriesId(seriesId(DB, <<"s">>, "asc").db, <<"s">>, "desc").id
           = NextRowId(series)

\* C8: in every state the calls of the layer lead to, updatePersonName,
\* updatePublisherName and updateSeriesName among them, no two people rows
\* have the same name, no two publishers rows have the same name and no two
\* series rows have the same name.
C8_NamesUnique ==
    /\ \A i, j \in DOMAIN people : people[i] = people[j] => i = j
    /\ \A i, j \in DOMAIN publishers : publishers[i] = publishers[j] => i = j
    /\ \A i, j \in DOMAIN series : series[i] = series[j] => i = j

-----------------------------------------------------------------------------
(* Author and editor update *)

\* after the update of book k in a role to nameString, the people of the
\* book in the role are those named in nameString, and the rows of the other
\* role and of the other books are as before
RoleUpdated(before, after, k, nameString, role, other) ==
    /\ RoleIds(after, k, role) \subseteq DOMAIN after.people
    /\ NamesOf(after.people, RoleIds(after, k, role))
           = NameSet(nameListFromString(nameString))
    /\ Assoc(after, other) = Assoc(before, other)
    /\ {x \in Assoc(after, role) : x[1] # k}
           = {x \in Assoc(before, role) : x[1] # k}

\* C9: after an updateBookAuthor(id, s) that returns no error, the authors of
\* book id are the people named in s, names parsed with nameListFromString:
\* the names new to the book were added and the names no longer listed were
\* removed; the editors of the book and the authors and editors of every
\* other book are as before.  Likewise updateBookEditor, with editors for
\* authors.
C9_RoleSetUpdated ==
    \A k \in DOMAIN books, ord \in RowOrders :
        /\ \A str \in Inputs.authorStrings :
               LET r == updateBookAuthor(DB, k, str, ord) IN
               r.err = "" =>
                   RoleUpdated(DB, r.db, k, str, "book_author", "book_editor")
        /\ \A str \in Inputs.editorStrings :
               LET r == updateBookEditor(DB, k, str, ord) IN
               r.err = "" =>
                   RoleUpdated(DB, r.db, k, str, "book_editor", "book_author")

\* C10: an updateBookAuthor(id, s) or updateBookEditor(id, s) that returns no
\* error returns a string equal to s, for every formatted name list s: a
\* string read back that differs from s comes with an error.
C10_ReturnsRequested ==
    \A k \in DOMAIN books, ord \in RowOrders :
        /\ \A str \in Inputs.authorStrings :
               LET r == updateBookAuthor(DB, k, str, ord) IN
               r.err = "" => r.str = str
        /\ \A str \in Inputs.editorStrings :
               LET r == updateBookEditor(DB, k, str, ord) IN
               r.err = "" => r.str = str

-----------------------------------------------------------------------------
(* Errors of the updates *)

\* the update of book k in a role to nameString adds a people row and an
\* association row, and then a later step of it fails
FailsAfterAdding(db, k, nameString, ord, role) ==
    LET old == getNamesListById(db, k, ord, role)
        added == AddNames(db, k, NotIn(nameListFromString(nameString), old.list),
                          ord, role)
    IN  /\ old.err = ""
        /\ added.err # ""
        /\ added.db.people # db.people
        /\ Assoc(added.db, role) # Assoc(db, role)

\* C11: an updateBookAuthor or updateBookEditor call of which a step fails
\* (the second association insert for a name listed twice, say) returns an
\* error and leaves no association row and no people row that it added: every
\* table is as before the call.
C11_UpdateAtomic ==
    \A k \in BookIds, ord \in RowOrders :
        /\ \A str \in Inputs.authorStrings :
               LET r == updateBookAuthor(DB, k, str, ord) IN
               /\ r.err # "" => r.db = DB
               /\ FailsAfterAdding(DB, k, str, ord, "book_author") => r.err # ""
        /\ \A str \in Inputs.editorStrings \cup {<<"b", AND, "b">>} :
               LET r == updateBookEditor(DB, k, str, ord) IN
               /\ r.err # "" => r.db = DB
               /\ FailsAfterAdding(DB, k, str, ord, "book_editor") => r.err # ""

\* a state with a book that has an author and an editor, where an update of
\* its authors and an update of its editors fail at the second insert of a
\* name listed twice, after the first insert and the insert of the person
C11_Witness ==
    \E k \in DOMAIN books, ord \in RowOrders :
        /\ RoleIds(DB, k, "book_author") # {}
        /\ RoleIds(DB, k, "book_editor") # {}
        /\ \E str \in Inputs.authorStrings :
               /\ FailsAfterAdding(DB, k, str, ord, "book_author")
               /\ updateBookAuthor(DB, k, str, ord).err # ""
        /\ FailsAfterAdding(DB, k, <<"b", AND, "b">>, ord, "book_editor")
        /\ updateBookEditor(DB, k, <<"b", AND, "b">>, ord).err # ""

-----------------------------------------------------------------------------
(* Scalar fields *)

\* the row stores no empty-string subtitle, no zero edition, no zero series
\* id and no empty purchase-date string
NoZeroStored(row) ==
    /\ row.subtitle.Valid => Len(row.subtitle.String) # 0
    /\ row.edition.Valid => row.edition.Int64 # 0
    /\ row.series_id.Valid => row.series_id.Int64 # 0
    /\ row.purchased_date.Valid => Len(row.purchased_date.String) # 0

\* setting the subtitle, the edition, the series (by id and by name) and the
\* purchase date of book k to the zero or empty value succeeds and leaves
\* NULL in the column
ZeroStoresNull(db, k, ord) ==
    LET sub == updateBookSubtitle(db, k, <<>>)
        ed == updateBookEdition(db, k, 0)
        byId == updateBookSeriesById(db, k, 0)
        byName == updateBookSeriesByName(db, k, <<>>, ord)
        pur == updateBookPurchaseDate(db, k, PurchasedDate(0, 0, 0))
    IN  /\ sub.err = "" /\ ~sub.db.books[k].subtitle.Valid
        /\ ed.err = "" /\ ~ed.db.books[k].edition.Valid
        /\ byId.err = "" /\ ~byId.db.books[k].series_id.Valid
        /\ byName.err = "" /\ ~byName.db.books[k].series_id.Valid
        /\ pur.err = "" /\ ~pur.db.books[k].purchased_date.Valid

\* C12: after any sequence of addBook, updateBookSubtitle, updateBookEdition,
\* updateBookSeriesById, updateBookSeriesByName and updateBookPurchaseDate
\* calls (and of the other calls of the layer), no book row stores an
\* empty-string subtitle, a zero edition, a zero series id or an empty
\* purchase-date string: setting the field to its zero or empty value stores
\* NULL.
C12_AbsentMarker ==
    \A k \in DOMAIN books :
        /\ NoZeroStored(books[k])
        /\ \A ord \in RowOrders : ZeroStoresNull(DB, k, ord)

\* a state with a book that has a subtitle, an edition, a series and a
\* purchase date, each of which the update to the zero value sets to NULL
C12_Witness ==
    \E k \in DOMAIN books :
        /\ books[k].subtitle.Valid /\ books[k].edition.Valid
        /\ books[k].series_id.Valid /\ books[k].purchased_date.Valid
        /\ updateBookSubtitle(DB, k, <<>>).db.books[k].subtitle = NullString(FALSE, <<>>)
        /\ updateBookEdition(DB, k, 0).db.books[k].edition = NullInt64(FALSE, 0)
        /\ updateBookSeriesById(DB, k, 0).db.books[k].series_id = NullInt64(FALSE, 0)
        /\ updateBookPurchaseDate(DB, k, PurchasedDate(0, 0, 0)).db.books[k].purchased_date
               = NullString(FALSE, <<>>)

-----------------------------------------------------------------------------
(* Validation *)

\* the candidate has an empty publisher name, or an empty name in its author
\* list or in its editor list
HasEmptyName(b) ==
    \/ Len(b.publisher) = 0
    \/ Contains(nameListFromString(b.author), <<>>)
    \/ Contains(nameListFromString(b.editor), <<>>)

\* the candidates of the runs, and two with an empty name after and before
\* the name of an author
CandidatesWithEmptyNames ==
    Inputs.candidates
        \cup {Candidate(<<"a", AND>>, <<>>, <<"t">>, <<"p">>, <<>>),
              Candidate(<<AND, "a">>, <<>>, <<"t">>, <<"p">>, <<>>)}

\* C13: addBook called with an empty publisher name, or with an empty name in
\* its author or editor list, returns an error and leaves every table as it
\* was, the people table included: the validation error is detected before
\* any write.
C13_ValidationBeforeWrite ==
    \A b \in CandidatesWithEmptyNames, ord \in RowOrders :
        HasEmptyName(b) =>
            /\ addBook(DB, b, ord).err # ""
            /\ addBook(DB, b, ord).db = DB

\* the call returned an error and left database db as it was
Refused(r, db) == r.err # "" /\ r.db = db

\* C14: updateBookTitle with an empty title, updateBookStatus with an empty
\* status, updateSeriesName with an empty name, and updatePublisherName and
\* updateBookPublisherByName with an empty name each return an error and
\* leave every table as it was; updateBookTitle returns the stored title of
\* the book and updateSeriesName the stored name of the series with the
\* error.
C14_EmptyRefused ==
    /\ \A k \in BookIds, ord \in RowOrders :
           /\ Refused(updateBookTitle(DB, k, <<>>, ord), DB)
           /\ k \in DOMAIN books =>
                  updateBookTitle(DB, k, <<>>, ord).str = books[k].title
           /\ Refused(updateBookStatus(DB, k, <<>>), DB)
           /\ Refused(updateBookPublisherByName(DB, k, <<>>, ord), DB)
    /\ \A id \in PublisherIds : Refused(updatePublisherName(DB, id, <<>>), DB)
    /\ \A id \in SeriesIds :
           /\ Refused(updateSeriesName(DB, id, <<>>), DB)
           /\ id \in DOMAIN series => updateSeriesName(DB, id, <<>>).str = series[id]

\* a state with a book that was given another title, of a publisher and a
\* series that were given another name, where each of the five calls is
\* refused
C14_Witness ==
    \E k \in DOMAIN books, ord \in RowOrders :
        /\ books[k].title = <<"u">>
        /\ books[k].series_id.Valid
        /\ publishers[books[k].publisher_id] = <<"q">>
        /\ series[books[k].series_id.Int64] = <<"r">>
        /\ updateBookTitle(DB, k, <<>>, ord) = [db |-> DB, err |-> "EmptyTitle", str |-> <<"u">>]
        /\ updateSeriesName(DB, books[k].series_id.Int64, <<>>).str = <<"r">>
        /\ Refused(updateSeriesName(DB, books[k].series_id.Int64, <<>>), DB)
        /\ Refused(updateBookStatus(DB, k, <<>>), DB)
        /\ Refused(updatePublisherName(DB, books[k].publisher_id, <<>>), DB)
        /\ Refused(updateBookPublisherByName(DB, k, <<>>, ord), DB)

\* C15: every book row of every reachable state has a title that is not
\* empty and a status that is not empty: addBook, updateBookTitle and
\* updateBookStatus never store an empty title or an empty status.
C15_TitleAndStatus ==
    \A k \in DOMAIN books :
        Len(books[k].title) # 0 /\ Len(books[k].status) # 0

\* a call that returned an error left database db as it was
KeptOnError(r, db) == r.err # "" => r.db = db

\* C16: every update of a scalar field (updateBookTitle, updateBookSubtitle,
\* updateBookYear, updateBookEdition, updateBookIsbn, updateBookStatus,
\* updateBookPublisherById, updateBookPublisherByName, updateBookSeriesById,
\* updateBookSeriesByName, updateBookPurchaseDate) that returns an error
\* leaves every table as it was before the call, also when the book id has
\* no row and when the check of the value read back fails.
C16_ErrorLeavesStorage ==
    \A k \in BookIds, ord \in RowOrders :
        /\ \A title \in InputsFields.newTitles :
               KeptOnError(updateBookTitle(DB, k, title, ord), DB)
        /\ \A subtitle \in InputsFields.subtitles :
               KeptOnError(updateBookSubtitle(DB, k, subtitle), DB)
        /\ \A year \in InputsFields.years :
               KeptOnError(updateBookYear(DB, k, year), DB)
        /\ \A edition \in InputsFields.editions :
               KeptOnError(updateBookEdition(DB, k, edition), DB)
        /\ \A isbn \in InputsFields.isbns :
               KeptOnError(updateBookIsbn(DB, k, isbn), DB)
        /\ \A status \in InputsFields.statuses :
               KeptOnError(updateBookStatus(DB, k, status), DB)
        /\ \A publisher \in 1..MaxPublishers + 1 :
               KeptOnError(updateBookPublisherById(DB, k, publisher, ord), DB)
        /\ \A name \in PublisherNames \cup {<<>>} :
               KeptOnError(updateBookPublisherByName(DB, k, name, ord), DB)
        /\ \A ser \in {0} \cup 1..MaxSeries + 1 :
               KeptOnError(updateBookSeriesById(DB, k, ser), DB)
        /\ \A name \in SeriesNames \cup {<<>>} :
               KeptOnError(updateBookSeriesByName(DB, k, name, ord), DB)
        /\ \A date \in InputsFields.dates :
               KeptOnError(updateBookPurchaseDate(DB, k, date), DB)

-----------------------------------------------------------------------------
(* Unknown ids *)

\* the series id a book row holds, 0 for NULL
SeriesIdOf(row) == row.series_id.Int64

\* C17: for a book that exists, updateBookSeriesById with a series id other
\* than 0 that has no series row fails with the unknown-series-id error and
\* returns the series id the book has, and updateBookPublisherById with a
\* publisher id that has no publishers row fails with the
\* unknown-publisher-id error and returns the publisher id the book has;
\* both leave the book row (and every other row) as it was.
C17_UnknownIdRefused ==
    \A k \in DOMAIN books :
        /\ \A ser \in (1..MaxSeries + 1) \ DOMAIN series :
               updateBookSeriesById(DB, k, ser)
                   = [db |-> DB, err |-> "InvalidSeriesId", id |-> SeriesIdOf(books[k])]
        /\ \A publisher \in (0..MaxPublishers + 1) \ DOMAIN publishers, ord \in RowOrders :
               updateBookPublisherById(DB, k, publisher, ord)
                   = [db |-> DB, err |-> "InvalidPublisherId", id |-> books[k].publisher_id]

\* a state with a book of a series and a book of no series, where both
\* calls on both books are refused and return what the book has
C17_Witness ==
    \E j, k \in DOMAIN books :
        /\ books[j].series_id.Valid /\ ~books[k].series_id.Valid
        /\ \A i \in {j, k} :
               /\ updateBookSeriesById(DB, i, MaxSeries + 1).err = "InvalidSeriesId"
               /\ updateBookSeriesById(DB, i, MaxSeries + 1).id = SeriesIdOf(books[i])
               /\ updateBookPublisherById(DB, i, MaxPublishers + 1, "asc")
                      = [db |-> DB, err |-> "InvalidPublisherId", id |-> books[i].publisher_id]
        /\ updateBookSeriesById(DB, j, MaxSeries + 1).id # 0

-----------------------------------------------------------------------------
(* Renaming a publisher *)

Unknown(table, max) == (0..max + 1) \ DOMAIN table

\* C19: every lookup or delete keyed by an id that has no row returns the
\* unknown-id error of the kind of the id (book, person, publisher, series),
\* which no other failure returns, and changes nothing in the store:
\* getBookById, getAuthorsListById, getEditorsListById and deleteBook for a
\* book id; personName, booksByPersonId and deletePerson for a person id;
\* publisherName, publisherBooks and deletePublisher for a publisher id;
\* seriesName, seriesBooks and deleteSeries for a series id.
C19_UnknownId ==
    /\ \A id \in Unknown(books, MaxBooks), ord \in RowOrders :
           /\ getBookById(DB, id, ord).err = "InvalidBookId"
           /\ getAuthorsListById(DB, id, ord).err = "InvalidBookId"
           /\ getEditorsListById(DB, id, ord).err = "InvalidBookId"
           /\ deleteBook(DB, id, ord) = [db |-> DB, err |-> "InvalidBookId"]
    /\ \A id \in Unknown(people, MaxPeople) :
           /\ personName(DB, id).err = "InvalidPersonId"
           /\ booksByPersonId(DB, id).err = "InvalidPersonId"
           /\ deletePerson(DB, id) = [db |-> DB, err |-> "InvalidPersonId"]
    /\ \A id \in Unknown(publishers, MaxPublishers) :
           /\ publisherName(DB, id).err = "InvalidPublisherId"
           /\ publisherBooks(DB, id).err = "InvalidPublisherId"
           /\ deletePublisher(DB, id) = [db |-> DB, err |-> "InvalidPublisherId"]
    /\ \A id \in Unknown(series, MaxSeries) :
           /\ seriesName(DB, id).err = "InvalidSeriesId"
           /\ seriesBooks(DB, id).err = "InvalidSeriesId"
           /\ deleteSeries(DB, id) = [db |-> DB, err |-> "InvalidSeriesId"]

\* a state where book 1 and person 1 were deleted and book 2 and person 2
\* are there, with a publisher and a series: the calls with id 1 return the
\* unknown-id error for a book and for a person, the calls with id 2 do not,
\* and the calls with a publisher id and a series id past the last row return
\* the error of their kind
C19_Witness ==
    /\ DOMAIN books = {2} /\ DOMAIN people = {2}
    /\ publishers # EmptyTable /\ series # EmptyTable
    /\ getBookById(DB, 1, "asc").err = "InvalidBookId"
    /\ getBookById(DB, 2, "asc").err = ""
    /\ deleteBook(DB, 1, "asc") = [db |-> DB, err |-> "InvalidBookId"]
    /\ personName(DB, 1).err = "InvalidPersonId"
    /\ personName(DB, 2).err = ""
    /\ deletePerson(DB, 1) = [db |-> DB, err |-> "InvalidPersonId"]
    /\ deletePublisher(DB, NextRowId(publishers)).err = "InvalidPublisherId"
    /\ deleteSeries(DB, NextRowId(series)).err = "InvalidSeriesId"

-----------------------------------------------------------------------------
(* Books without authors, without editors *)

\* C20: for a book that exists and has no book_author rows,
\* getAuthorsListById returns the empty list and no error, and getBookById
\* returns the book with the empty author string and no error; likewise
\* getEditorsListById and the editor string for a book with no book_editor
\* rows.  No rows is not reported as an unknown book id.
C20_NoRowsIsNoError ==
    \A k \in DOMAIN books, ord \in RowOrders :
        /\ RoleIds(DB, k, "book_author") = {} =>
               /\ getAuthorsListById(DB, k, ord) = [err |-> "", list |-> <<>>]
               /\ getBookById(DB, k, ord).err = ""
               /\ getBookById(DB, k, ord).b.id = k
               /\ getBookById(DB, k, ord).b.author = <<>>
        /\ RoleIds(DB, k, "book_editor") = {} =>
               /\ getEditorsListById(DB, k, ord) = [err |-> "", list |-> <<>>]
               /\ getBookById(DB, k, ord).err = ""
               /\ getBookById(DB, k, ord).b.id = k
               /\ getBookById(DB, k, ord).b.editor = <<>>

\* a state with a book that has an editor and no author, a book that has an
\* author and no editor, and no book 1
C20_Witness ==
    \E j, k \in DOMAIN books :
        /\ RoleIds(DB, j, "book_author") = {} /\ RoleIds(DB, j, "book_editor") # {}
        /\ RoleIds(DB, k, "book_editor") = {} /\ RoleIds(DB, k, "book_author") # {}
        /\ getAuthorsListById(DB, j, "asc") = [err |-> "", list |-> <<>>]
        /\ getBookById(DB, j, "asc").b.author = <<>>
        /\ getBookById(DB, j, "asc").b.editor # <<>>
        /\ getEditorsListById(DB, k, "asc") = [err |-> "", list |-> <<>>]
        /\ getBookById(DB, k, "asc").b.editor = <<>>
        /\ getAuthorsListById(DB, 0, "asc").err = "InvalidBookId"

-----------------------------------------------------------------------------
(* Counts *)

\* every book has status "Owned" or "Want"
OwnedOrWant(db) ==
    \A k \in DOMAIN db.books : db.books[k].status \in {<<"Owned">>, <<"Want">>}

\* C21: in every state that addBook and deleteBook calls (and the other
\* calls) lead to in which every book has status "Owned" or "Want",
\* countAllBooks equals countBooksByStatus("Owned") plus
\* countBooksByStatus("Want").
C21_CountsAddUp ==
    OwnedOrWant(DB) =>
        countAllBooks(DB)
            = countBooksByStatus(DB, <<"Owned">>) + countBooksByStatus(DB, <<"Want">>)

\* a state with an owned and a wanted book, where the counts are 1, 1 and 2,
\* and 1 of 1 after the deletion of book 1
C21_Witness ==
    /\ OwnedOrWant(DB)
    /\ DOMAIN books = {1, 2}
    /\ countBooksByStatus(DB, <<"Owned">>) = 1
    /\ countBooksByStatus(DB, <<"Want">>) = 1
    /\ countAllBooks(DB) = 2
    /\ countAllBooks(deleteBook(DB, 1, "asc").db) = 1
    /\ countBooksByStatus(deleteBook(DB, 1, "asc").db, books[2].status) = 1

-----------------------------------------------------------------------------
(* Name lists *)

\* string s has the string sub in it
HasSubstring(s, sub) ==
    \E i \in 1..Len(s) - Len(sub) + 1 : SubSeq(s, i, i + Len(sub) - 1) = sub

\* no name of the list has " and " or ", " in it
NoSeparatorIn(names) ==
    \A i \in 1..Len(names) :
        ~HasSubstring(names[i], AndText) /\ ~HasSubstring(names[i], CommaText)

\* C22: for every list of 0 to 4 names of which none has " and " or ", " in
\* it, nameListFromString(formatNameList(list)) is the list: as long, with the
\* same names in the same order.
C22_FormatThenParse ==
    (trip.phase = "parsed" /\ Len(trip.names) <= 4 /\ NoSeparatorIn(trip.names))
        => trip.list = trip.names

-----------------------------------------------------------------------------
(* Round trip of a book *)

\* books with every field set, with two authors in either order, and with
\* a purchase date of a year, of a day, of a day without a month and of a
\* year of three digits
FullCandidates ==
    {Book(0, a, <<"b">>, <<"u">>, <<"x">>, 2020, 2, <<"p">>, <<"i">>, <<"s">>, <<"Read">>, d) :
        a \in {<<"a", AND, "b">>, <<"b", AND, "a">>},
        d \in {PurchasedDate(2020, 0, 0), PurchasedDate(2020, 5, 17),
               PurchasedDate(2020, 0, 7), PurchasedDate(999, 0, 0)}}

\* book g is book b with id id: the scalar fields, the publisher and the
\* series are those of b, and the author and editor strings parse to the
\* names of those of b
SameBook(g, b, id) ==
    /\ g.id = id
    /\ g.title = b.title /\ g.subtitle = b.subtitle /\ g.year = b.year
    /\ g.edition = b.edition /\ g.publisher = b.publisher /\ g.isbn = b.isbn
    /\ g.series = b.series /\ g.status = b.status /\ g.purchased = b.purchased
    /\ NameSet(nameListFromString(g.author)) = NameSet(nameListFromString(b.author))
    /\ NameSet(nameListFromString(g.editor)) = NameSet(nameListFromString(b.editor))

\* C23: after an addBook(b) that returns id and no error, getBookById(id)
\* returns without error a book of id id whose title, subtitle, year,
\* edition, publisher, isbn, series, status and purchase date are those of
\* b, and whose author and editor strings parse to the same sets of names as
\* those of b.
C23_AddThenGet ==
    \A b \in Inputs.candidates \cup FullCandidates, ord1, ord2 \in RowOrders :
        LET r == addBook(DB, b, ord1) IN
        r.err = "" =>
            /\ getBookById(r.db, r.id, ord2).err = ""
            /\ SameBook(getBookById(r.db, r.id, ord2).b, b, r.id)

-----------------------------------------------------------------------------
(* C24: deleteBook is one transaction *)

\* deleteBook fails after db.Begin(): the book was read, and a step of the
\* transaction returned an error that is not an absorbed in-use error
FailsInTransaction(db, k, ord) ==
    /\ getBookById(db, k, ord).err = ""
    /\ deleteBook(db, k, ord).err # ""

\* C24: when deleteBook returns an error after its transaction has begun, the
\* transaction is rolled back: the book row, its book_author and book_editor
\* rows and every people, publishers and series row are as before the call
C24_DeleteRolledBack ==
    \A k \in BookIds, ord \in RowOrders :
        FailsInTransaction(DB, k, ord) => deleteBook(DB, k, ord).db = DB

\* a book with association rows whose deletion fails inside the transaction
C24_Witness ==
    \E k \in BookIds, ord \in RowOrders :
        /\ FailsInTransaction(DB, k, ord)
        /\ \E r \in book_author \cup book_editor : r[1] = k

-----------------------------------------------------------------------------
(* C25: get-or-create under concurrent callers *)

\* callers c1 and c2 have each made one call, of the same get-or-create
\* function with the same name, and both calls have returned an id: the
\* statements of the two calls are all that has run, in some interleaving
BothResolved(c1, c2) ==
    /\ c1 # c2
    /\ \A c \in {c1, c2} :
           /\ callers[c].calls = 1
           /\ callers[c].op \in {"personId", "publisherId", "seriesId"}
           /\ callers[c].pc = "done"
           /\ callers[c].err = ""
    /\ callers[c1].todo = callers[c2].todo

\* C25: get-or-create is atomic under concurrent callers: when two callers
\* run personId (likewise publisherId, seriesId) with the same new name, in
\* whatever way their lookup and insert statements interleave, both receive
\* the same id and exactly one row with that name exists afterwards
C25_GetOrCreateAtomic ==
    \A c1, c2 \in Callers :
        BothResolved(c1, c2) =>
            /\ callers[c1].id = callers[c2].id
            /\ Cardinality({i \in DOMAIN DB[Head(callers[c1].todo)[1]] :
                               DB[Head(callers[c1].todo)[1]][i]
                                   = Head(callers[c1].todo)[2]}) = 1

-----------------------------------------------------------------------------
(* C26: no unreferenced people, publishers or series *)

\* the people no book_author or book_editor row refers to, the publishers
\* and the series no book refers to
Orphans(db) ==
    [people |-> {p \in DOMAIN db.people :
                    ~ \E r \in db.book_author \cup db.book_editor : r[2] = p},
     publishers |-> {p \in DOMAIN db.publishers :
                        ~ \E k \in DOMAIN db.books : db.books[k].publisher_id = p},
     series |-> {s \in DOMAIN db.series :
                    ~ \E k \in DOMAIN db.books :
                          db.books[k].series_id = NullInt64(TRUE, s)}]

\* C26: from an empty store, after any sequence of addBook, updateBookAuthor,
\* updateBookEditor and deleteBook calls, whether they succeed or fail, every
\* people row is referenced by a book_author or book_editor row and every
\* publishers and series row is referenced by a book
C26_NoOrphans ==
    Orphans(DB) = [people |-> {}, publishers |-> {}, series |-> {}]

-----------------------------------------------------------------------------
(* C27: a person in both roles of the deleted book *)

\* person p is an author and an editor of book k and has no other book
InBothRolesOnly(db, k, p) ==
    /\ p \in DOMAIN db.people
    /\ <<k, p>> \in db.book_author
    /\ <<k, p>> \in db.book_editor
    /\ \A r \in db.book_author \cup db.book_editor : r[2] = p => r[1] = k

\* C27: when a person is both an author and an editor of a book and of no
\* other book, a successful deleteBook of that book leaves no people row with
\* that person's name, the name being in peopleList twice
C27_BothRolesRemoved ==
    \A k \in BookIds, p \in PersonIds, ord \in RowOrders :
        (InBothRolesOnly(DB, k, p) /\ deleteBook(DB, k, ord).err = "") =>
            RowsNamed(deleteBook(DB, k, ord).db.people, DB.people[p]) = {}

-----------------------------------------------------------------------------
(* C28: references under concurrent callers *)

\* one caller is in addBook, or back from it, while another is in, or back
\* from, deleteBook, deletePerson, deletePublisher or deleteSeries
AddingWhileDeleting ==
    \E c1, c2 \in Callers :
        /\ c1 # c2
        /\ callers[c1].op = "addBook"
        /\ callers[c2].op \in {"deleteBook", "deletePerson", "deletePublisher",
                               "deleteSeries"}

\* C28: when an addBook call by one caller interleaves with a deleteBook,
\* deletePerson, deletePublisher or deleteSeries call by another, no committed
\* state has a book_author or book_editor row whose person does not exist, or
\* a book whose publisher or series does not exist
C28_NoDanglingReference ==
    AddingWhileDeleting =>
        /\ \A r \in book_author \cup book_editor : r[2] \in DOMAIN people
        /\ \A k \in DOMAIN books :
               /\ books[k].publisher_id \in DOMAIN publishers
               /\ books[k].series_id.Valid =>
                      books[k].series_id.Int64 \in DOMAIN series

-----------------------------------------------------------------------------
(* C29: no empty name *)

\* C29: in every reachable state no people, publishers or series row has an
\* empty name: personId, publisherId, seriesId, updatePersonName,
\* updatePublisherName and updateSeriesName reject the empty string
C29_NoEmptyName ==
    /\ RowsNamed(people, <<>>) = {}
    /\ RowsNamed(publishers, <<>>) = {}
    /\ RowsNamed(series, <<>>) = {}

-----------------------------------------------------------------------------
(* C30: deleteBook and the other books *)

\* C30: a successful deleteBook(id) changes no other book: for every other
\* id', getBookById(id') returns the same title, subtitle, year, edition,
\* isbn, status, purchase date, publisher name, series name, set of authors
\* and set of editors after the call as before it
C30_DeleteLeavesOthers ==
    \A k, other \in BookIds, ord, ord1, ord2 \in RowOrders :
        LET after == deleteBook(DB, k, ord)
            before == getBookById(DB, other, ord1)
        IN  (other # k /\ after.err = "" /\ before.err = "") =>
                /\ getBookById(after.db, other, ord2).err = ""
                /\ SameBook(getBookById(after.db, other, ord2).b, before.b, other)

\* a book is deleted while another book has its publisher and one of its
\* people
C30_Witness ==
    \E k, other \in DOMAIN books :
        /\ other # k
        /\ deleteBook(DB, k, "asc").err = ""
        /\ books[k].publisher_id = books[other].publisher_id
        /\ PeopleOf(DB, k) \cap PeopleOf(DB, other) # {}
        /\ PeopleOf(DB, k) # PeopleOf(DB, other)

=============================================================================
